---- MODULE Spec2Model ----
(***************************************************************************)
(* ChunkyStreamSocket (chunkystreamsocket.py): message framing over a TCP  *)
(* byte stream.  One instance wraps one socket and keeps one field across  *)
(* calls, _backlog_bytes.  send, recv and recv_to_separator are modelled   *)
(* as processes that stop at every blocking socket call: a step runs the   *)
(* code from one socket call to the next (or to the return / raise).       *)
(***************************************************************************)
EXTENDS Integers, Sequences, FiniteSets, TLC

VARIABLES
    backlog_bytes,       \* self._backlog_bytes: None or bytes
    sockTimeout,         \* the timeout the socket carries (settimeout)
    pc,                  \* receiver position: "idle", "recv", "rts"
    op,                  \* the receive operation called last
    length,              \* recv: parameter length (0 outside recv)
    separator,           \* recv_to_separator: parameter separator (b'' outside it)
    msg_bytes,           \* recv: b''.join(chunks); recv_to_separator: msg_bytes
    start_search_index,  \* recv_to_separator: start_search_index
    timeout,             \* recv: parameter timeout, of the last recv call
    outcome,             \* how the last receive call ended
    result,              \* what the last receive call returned (None if it raised)
    wire,                \* bytes written by the peer and not yet read from the socket
    peerOpen,            \* the peer may still write: an empty wire blocks instead of EOF
    s_pc,                \* sender position: "idle", "send"
    s_msg,               \* send: parameter msg_bytes
    total_nr_sent,       \* send: total_nr_sent
    s_outcome,           \* how the last send call ended
    s_result,            \* what the last send call returned (NoCount if it raised)
    MSG_SEP,             \* demo: the separator both ends agreed on
    messages,            \* demo client: the messages to send
    msgIdx,              \* demo client: index of the next message to send
    received,            \* demo server: the messages received so far
    rx,                  \* history: every byte read from the socket, in order
    nreads,              \* history: socket reads that returned data in this call
    readsEver,           \* history: such reads since construction, counted to 2
    lastRead,            \* history: what the last socket read of this call gave
    startBacklog,        \* history: _backlog_bytes when the call started
    callStart,           \* history: offset in rx where this call's accumulation starts
    lostEnd,             \* history: Len(rx) when a call last raised and dropped its bytes
    delivered,           \* history: the messages returned since a call last raised,
                         \* each recv_to_separator result followed by its separator
    replaced,            \* history: _backlog_bytes at the moment the last backlog was
                         \* stored over it
    accepted,            \* history: bytes the socket accepted in this send call
    nwrites,             \* history: socket writes of this send call
    wroteZero,           \* history: a socket write of this send call returned 0
    dq_queue,            \* DeadlineQueue: self._queue, tuples (deadline, idx, item)
    dq_count,            \* DeadlineQueue: self._count
    cv_waiters,          \* DeadlineQueue: threads inside self._cv.wait(), oldest first
    get_pc,              \* per consumer thread: "idle", "waiting", "notified"
    element,             \* per consumer thread: what its last get() returned
    puts,                \* history: the (deadline, item) of every put(), in order
    waited,              \* history, per consumer thread: its last get() had to wait
    dq_call,             \* per thread: the call it is in or made last, get or peek
    gotten,              \* history: the elements get() has returned, in order
    qsize_ret,           \* what the last qsize() returned, with the numbers of
                         \* put() and get() calls completed before it
    u_call,              \* utilities.py: the function that was called last
    u_args,              \* utilities.py: the arguments of that call
    u_ret,               \* utilities.py: what that call returned
    files,               \* the log directory: what each file name holds
    now,                 \* queue demo: time.perf_counter(), in milliseconds
    terminate_event,     \* queue demo: terminate_event.is_set()
    end_barrier,         \* queue demo: the threads waiting at end_barrier, and
                         \* whether it is broken
    demo_pc,             \* queue demo: where producer, consumer and demo() are
    produced,            \* queue demo: the number of put() calls of the producer
    parked,              \* the locals (recvVars) of the second thread that uses the
                         \* socket instance, while the first one runs
    overlapped,          \* history: two receive calls were in progress at a time
    legacy               \* an instance of the class of ChunkyStreamSocket.py that is
                         \* given the calls and the socket results of the other one

instVars   == <<backlog_bytes, sockTimeout>>
recvVars   == <<pc, op, length, timeout, separator, msg_bytes, start_search_index,
                outcome, result>>
recvHist   == <<rx, nreads, readsEver, lastRead, startBacklog, callStart, lostEnd,
                delivered, replaced>>
netVars    == <<wire, peerOpen>>
sendVars   == <<s_pc, s_msg, total_nr_sent, s_outcome, s_result,
                accepted, nwrites, wroteZero>>
callerVars == <<MSG_SEP, messages, msgIdx, received>>
queueVars  == <<dq_queue, dq_count, cv_waiters, get_pc, element, puts, waited,
                dq_call, gotten, qsize_ret>>
utilVars   == <<u_call, u_args, u_ret, files>>
demoVars   == <<now, terminate_event, end_barrier, demo_pc, produced>>
threadVars == <<parked, overlapped>>
otherVars  == <<utilVars, demoVars, threadVars, legacy>>
vars == <<instVars, recvVars, recvHist, netVars, sendVars, callerVars, queueVars,
          otherVars>>

----------------------------------------------------------------------------
(* Bounds of the model *)

MaxWire == 4          \* longest byte stream the peer delivers
MaxSepLen == 2        \* longest separator a call is given
MaxLength == 3        \* largest length recv is called with
MaxSendLen == 3       \* longest message send is called with
MaxMsgLen == 2        \* longest message of an exchange of one message
MaxPairLen == 1       \* longest message of an exchange of two messages
MaxNegLength == 1     \* recv is called with lengths down to -MaxNegLength
MaxArgWire == 3       \* longest byte stream when calls take arguments of any kind
MaxEndWire == 3       \* longest byte stream when socket reads are sure to end
MaxPuts == 3          \* number of put() calls on one DeadlineQueue
MaxDeadline == 1      \* latest deadline an item is put with
MaxN == 12            \* round_down, round_up: the largest n
MaxM == 6             \* round_down, round_up: the largest m
MaxFmtLen == 5        \* string_from_format: the longest format
MaxRotation == 2      \* rotate_file: the largest rotation
MaxFiles == 4         \* log files written to the directory
MaxSharedWire == 3    \* longest byte stream read by two threads
MaxSharedLength == 2  \* largest length recv is called with by two threads
MaxSharedSepLen == 1  \* longest separator two threads call with
MaxLegacyWire == 3    \* longest byte stream read by the two copies of the class
MaxLegacyLength == 2  \* largest length recv of the two copies is called with
MaxLegacySepLen == 1  \* longest separator the two copies are called with
MaxLegacySend == 1    \* longest message send of the two copies is called with

(* Bytes.  Two values are enough for a separator to overlap itself. *)
Byte == {0, 1}

(* Python's None, for a bytes-valued field or result *)
None == <<-1>>
(* No byte count: send raised *)
NoCount == -1

(* The size of one socket read: self.sock.recv(4096) *)
ReadChunkSize == 4096

Min(a, b) == IF a < b THEN a ELSE b
Max(a, b) == IF a > b THEN a ELSE b

(* All byte strings of length lo..hi *)
BSeq(lo, hi) == UNION {[1..n -> Byte] : n \in lo..hi}

(* No element: get() has not returned *)
NoElement == <<>>
(* The threads that call get() on the queue *)
Consumers == {"consumer"}
(* the threads that may use one queue *)
Threads == Consumers \cup {"consumer2"}
(* qsize() has not been called *)
NoSize == <<-1, 0, 0>>
(* deadlines and items an element is put with *)
Deadlines == 0..MaxDeadline
Items == {0, 1}
(* the items put when several threads use the queue *)
ThreadItems == {0}

(* socket timeouts: None (blocking) or a number of seconds *)
TimeoutValues == {"None", "seconds"}
Lengths == 0..MaxLength
Separators == BSeq(1, MaxSepLen)

----------------------------------------------------------------------------
(* Python bytes operations, as the code uses them *)

(* an index of a slice: negative counts from the end, then clamped *)
SliceIndex(i, n) == IF i < 0 THEN Max(i + n, 0) ELSE Min(i, n)
(* s[a:] *)
SliceFrom(s, a) == SubSeq(s, SliceIndex(a, Len(s)) + 1, Len(s))
(* s[:a] *)
SliceTo(s, a) == SubSeq(s, 1, SliceIndex(a, Len(s)))

(* find that misses an occurrence at the very index it starts from *)
Find_FromNext(s, sub, start) ==
    LET at == {i \in (start + 1)..(Len(s) - Len(sub)) :
                  SubSeq(s, i + 1, i + Len(sub)) = sub}
    IN  IF at = {} THEN -1
        ELSE CHOOSE i \in at : \A j \in at : i <= j

(* s.find(sub, start): the lowest index >= start where sub occurs, else -1 *)
Find(s, sub, start) ==
    LET at == {i \in start..(Len(s) - Len(sub)) :
                  SubSeq(s, i + 1, i + Len(sub)) = sub}
    IN  IF at = {} THEN -1
        ELSE CHOOSE i \in at : \A j \in at : i <= j

(* len(self._backlog_bytes), 0 for None *)
BacklogLen(b) == IF b = None THEN 0 ELSE Len(b)

----------------------------------------------------------------------------
(* The socket.  recv(n) hands over 1..n of the bytes on the wire, or b''   *)
(* once the peer has closed and the wire is drained, or raises a timeout   *)
(* when the socket carries one.                                            *)

SockRecvSizes(n) == 1..Min(n, Len(wire))
SockAtEof == wire = <<>> /\ ~peerOpen
SockMayTimeOut == sockTimeout # "None"

(* A socket read that returned `chunk` *)
TookChunk(chunk) ==
    /\ wire' = SubSeq(wire, Len(chunk) + 1, Len(wire))
    /\ rx' = rx \o chunk
    /\ nreads' = nreads + 1
    /\ readsEver' = Min(readsEver + 1, 2)
    /\ lastRead' = "chunk"
    /\ UNCHANGED peerOpen

(* A receive call raises: its local accumulation is dropped *)
Raise(exc, acc) ==
    /\ pc' = "idle"
    /\ outcome' = exc
    /\ result' = None
    /\ msg_bytes' = acc
    /\ lostEnd' = Len(rx)
    /\ delivered' = <<>>
    /\ UNCHANGED <<backlog_bytes, start_search_index, wire, peerOpen, rx, nreads,
                   readsEver, replaced>>

----------------------------------------------------------------------------
(* recv(length, timeout) *)

(* RecvTaken that leaves the backlog in the field after taking it *)
RecvTaken_Kept(b) == b

(* self._backlog_bytes after recv has taken the backlog as its first chunk *)
RecvTaken(b) == IF b # None THEN None ELSE b

(* RecvLoop that returns all it has accumulated, without the cut at length *)
RecvLoop_NoCut(acc, len) ==
    IF Len(acc) < len
    THEN /\ pc' = "recv"
         /\ msg_bytes' = acc
         /\ backlog_bytes' = RecvTaken(backlog_bytes)
         /\ outcome' = "pending"
         /\ result' = None
         /\ UNCHANGED <<delivered, replaced>>
    ELSE /\ pc' = "idle"
         /\ backlog_bytes' = RecvTaken(backlog_bytes)
         /\ msg_bytes' = acc
         /\ outcome' = "ok"
         /\ result' = msg_bytes'
         /\ delivered' = delivered \o msg_bytes'
         /\ UNCHANGED replaced

(* RecvLoop that cuts at length and forgets the rest *)
RecvLoop_DropsRest(acc, len) ==
    IF Len(acc) < len
    THEN /\ pc' = "recv"
         /\ msg_bytes' = acc
         /\ backlog_bytes' = RecvTaken(backlog_bytes)
         /\ outcome' = "pending"
         /\ result' = None
         /\ UNCHANGED <<delivered, replaced>>
    ELSE /\ pc' = "idle"
         /\ backlog_bytes' = RecvTaken(backlog_bytes)
         /\ msg_bytes' = IF Len(acc) > len THEN SliceTo(acc, len) ELSE acc
         /\ outcome' = "ok"
         /\ result' = msg_bytes'
         /\ delivered' = delivered \o msg_bytes'
         /\ UNCHANGED replaced

(* The loop test with `acc` accumulated; when it fails, join and split. *)
RecvLoop(acc, len) ==
    IF Len(acc) < len
    THEN /\ pc' = "recv"
         /\ msg_bytes' = acc
         /\ backlog_bytes' = RecvTaken(backlog_bytes)
         /\ outcome' = "pending"
         /\ result' = None
         /\ UNCHANGED <<delivered, replaced>>
    ELSE /\ pc' = "idle"
         /\ backlog_bytes' = IF Len(acc) > len THEN SliceFrom(acc, len)
                              ELSE RecvTaken(backlog_bytes)
         /\ replaced' = IF Len(acc) > len THEN RecvTaken(backlog_bytes)
                         ELSE replaced
         /\ msg_bytes' = IF Len(acc) > len THEN SliceTo(acc, len) ELSE acc
         /\ outcome' = "ok"
         /\ result' = msg_bytes'
         /\ delivered' = delivered \o msg_bytes'

(* recv that passes its timeout on without setting it on the socket *)
recv_TimeoutNotSet(len, t) ==
    /\ pc = "idle"
    /\ op' = "recv"
    /\ length' = len
    /\ timeout' = t
    /\ startBacklog' = backlog_bytes
    /\ callStart' = Len(rx) - BacklogLen(backlog_bytes)
    /\ nreads' = 0
    /\ lastRead' = "none"
    /\ separator' = <<>>
    /\ start_search_index' = 0
    /\ RecvLoop(IF backlog_bytes # None THEN backlog_bytes ELSE <<>>, len)
    /\ UNCHANGED <<sockTimeout, wire, peerOpen, rx, readsEver, lostEnd>>

(* The call up to its first socket read: take the backlog, set the timeout *)
recv(len, t) ==
    /\ pc = "idle"
    /\ op' = "recv"
    /\ length' = len
    /\ timeout' = t
    /\ sockTimeout' = t
    /\ startBacklog' = backlog_bytes
    /\ callStart' = Len(rx) - BacklogLen(backlog_bytes)
    /\ nreads' = 0
    /\ lastRead' = "none"
    /\ separator' = <<>>
    /\ start_search_index' = 0
    /\ RecvLoop(IF backlog_bytes # None THEN backlog_bytes ELSE <<>>, len)
    /\ UNCHANGED <<wire, peerOpen, rx, readsEver, lostEnd>>

(* RecvChunk that asks the socket for a full chunk whatever it still needs *)
RecvChunk_AsksFullChunk(k) ==
    /\ pc = "recv"
    /\ k \in SockRecvSizes(ReadChunkSize)
    /\ LET chunk == SubSeq(wire, 1, k)
       IN  /\ TookChunk(chunk)
           /\ RecvLoop(msg_bytes \o chunk, length)
    /\ UNCHANGED <<op, length, separator, start_search_index, sockTimeout, timeout,
                   startBacklog, callStart, lostEnd>>

(* chunk = self.sock.recv(recv_len) returned k bytes *)
RecvChunk(k) ==
    /\ pc = "recv"
    /\ k \in SockRecvSizes(Min(length - Len(msg_bytes), ReadChunkSize))
    /\ LET chunk == SubSeq(wire, 1, k)
       IN  /\ TookChunk(chunk)
           /\ RecvLoop(msg_bytes \o chunk, length)
    /\ UNCHANGED <<op, length, separator, start_search_index, sockTimeout, timeout,
                   startBacklog, callStart, lostEnd>>

(* RecvEmpty that takes b'' for a chunk and goes round the loop again *)
RecvEmpty_Retries ==
    /\ pc = "recv"
    /\ SockAtEof
    /\ lastRead' = "empty"
    /\ UNCHANGED <<backlog_bytes, pc, msg_bytes, start_search_index, outcome, result,
                   wire, peerOpen, rx, nreads, readsEver, lostEnd, delivered, replaced>>
    /\ UNCHANGED <<op, length, separator, sockTimeout, timeout, startBacklog, callStart>>

(* chunk == b'': raise RuntimeError("socket connection broken") *)
RecvEmpty ==
    /\ pc = "recv"
    /\ SockAtEof
    /\ lastRead' = "empty"
    /\ Raise("ConnectionBroken", msg_bytes)
    /\ UNCHANGED <<op, length, separator, sockTimeout, timeout, startBacklog, callStart>>

(* RecvTimeout that puts what was accumulated back as the backlog *)
RecvTimeout_KeepsBytes ==
    /\ pc = "recv"
    /\ SockMayTimeOut
    /\ lastRead' = "timeout"
    /\ pc' = "idle"
    /\ outcome' = "Timeout"
    /\ result' = None
    /\ backlog_bytes' = msg_bytes
    /\ lostEnd' = Len(rx)
    /\ delivered' = <<>>
    /\ UNCHANGED <<msg_bytes, start_search_index, wire, peerOpen, rx, nreads,
                   readsEver, replaced>>
    /\ UNCHANGED <<op, length, separator, sockTimeout, timeout, startBacklog, callStart>>

(* self.sock.recv raises the socket's timeout, which recv does not catch *)
RecvTimeout ==
    /\ pc = "recv"
    /\ SockMayTimeOut
    /\ lastRead' = "timeout"
    /\ Raise("Timeout", msg_bytes)
    /\ UNCHANGED <<op, length, separator, sockTimeout, timeout, startBacklog, callStart>>

----------------------------------------------------------------------------
(* recv_to_separator(separator) *)

(* RtsTaken that leaves the backlog in the field after taking it *)
RtsTaken_Kept(b) == b

(* self._backlog_bytes after recv_to_separator chose its chunk: a backlog  *)
(* that is not empty is taken as the chunk, b'' and None stay as they are  *)
RtsTaken(b) == IF b # None /\ Len(b) > 0 THEN None ELSE b

(* s.find(sub, start) that gives the highest index where sub occurs *)
Find_Last(s, sub, start) ==
    LET at == {i \in start..(Len(s) - Len(sub)) :
                  SubSeq(s, i + 1, i + Len(sub)) = sub}
    IN  IF at = {} THEN -1
        ELSE CHOOSE i \in at : \A j \in at : i >= j

(* RtsLoop with the separator left at the end of the returned message *)
RtsLoop_KeepsSeparator(acc, chunk, sep, ssi) ==
    LET msg == acc \o chunk
        start_separator_index == Find(msg, sep, ssi)
    IN  IF start_separator_index > -1
        THEN /\ pc' = "idle"
             /\ backlog_bytes' = SliceFrom(msg, start_separator_index + Len(sep))
             /\ replaced' = RtsTaken(backlog_bytes)
             /\ msg_bytes' = SliceTo(msg, start_separator_index + Len(sep))
             /\ start_search_index' = ssi
             /\ outcome' = "ok"
             /\ result' = msg_bytes'
             /\ delivered' = delivered \o msg_bytes' \o sep
        ELSE /\ pc' = "rts"
             /\ backlog_bytes' = RtsTaken(backlog_bytes)
             /\ msg_bytes' = msg
             /\ start_search_index' = Max(0, Len(msg) - (Len(sep) - 1))
             /\ outcome' = "pending"
             /\ result' = None
             /\ UNCHANGED <<delivered, replaced>>

(* RtsLoop with the next search starting `keep` bytes before the end of    *)
(* what was searched, instead of len(separator) - 1 bytes before it        *)
RtsLoopRescanning(acc, chunk, sep, ssi, keep) ==
    LET msg == acc \o chunk
        start_separator_index == Find(msg, sep, ssi)
    IN  IF start_separator_index > -1
        THEN /\ pc' = "idle"
             /\ backlog_bytes' = SliceFrom(msg, start_separator_index + Len(sep))
             /\ replaced' = RtsTaken(backlog_bytes)
             /\ msg_bytes' = SliceTo(msg, start_separator_index)
             /\ start_search_index' = ssi
             /\ outcome' = "ok"
             /\ result' = msg_bytes'
             /\ delivered' = delivered \o msg_bytes' \o sep
        ELSE /\ pc' = "rts"
             /\ backlog_bytes' = RtsTaken(backlog_bytes)
             /\ msg_bytes' = msg
             /\ start_search_index' = Max(0, Len(msg) - keep)
             /\ outcome' = "pending"
             /\ result' = None
             /\ UNCHANGED <<delivered, replaced>>

(* RtsLoop that searches only the bytes it has not searched yet *)
RtsLoop_NoRescan(acc, chunk, sep, ssi) ==
    RtsLoopRescanning(acc, chunk, sep, ssi, 0)

(* RtsLoop that searches again one byte less than it has to *)
RtsLoop_ShortRescan(acc, chunk, sep, ssi) ==
    RtsLoopRescanning(acc, chunk, sep, ssi, Len(sep) - 2)

(* RtsLoop that cuts at the last separator of what it has, not the first *)
RtsLoop_LastOccurrence(acc, chunk, sep, ssi) ==
    LET msg == acc \o chunk
        start_separator_index == Find_Last(msg, sep, ssi)
    IN  IF start_separator_index > -1
        THEN /\ pc' = "idle"
             /\ backlog_bytes' = SliceFrom(msg, start_separator_index + Len(sep))
             /\ replaced' = RtsTaken(backlog_bytes)
             /\ msg_bytes' = SliceTo(msg, start_separator_index)
             /\ start_search_index' = ssi
             /\ outcome' = "ok"
             /\ result' = msg_bytes'
             /\ delivered' = delivered \o msg_bytes' \o sep
        ELSE /\ pc' = "rts"
             /\ backlog_bytes' = RtsTaken(backlog_bytes)
             /\ msg_bytes' = msg
             /\ start_search_index' = Max(0, Len(msg) - (Len(sep) - 1))
             /\ outcome' = "pending"
             /\ result' = None
             /\ UNCHANGED <<delivered, replaced>>

(* One pass of the loop body after `chunk` was obtained *)
RtsLoop(acc, chunk, sep, ssi) ==
    LET msg == acc \o chunk
        start_separator_index == Find(msg, sep, ssi)
    IN  IF start_separator_index > -1
        THEN /\ pc' = "idle"
             /\ backlog_bytes' = SliceFrom(msg, start_separator_index + Len(sep))
             /\ replaced' = RtsTaken(backlog_bytes)
             /\ msg_bytes' = SliceTo(msg, start_separator_index)
             /\ start_search_index' = ssi
             /\ outcome' = "ok"
             /\ result' = msg_bytes'
             /\ delivered' = delivered \o msg_bytes' \o sep
        ELSE /\ pc' = "rts"
             /\ backlog_bytes' = RtsTaken(backlog_bytes)
             /\ msg_bytes' = msg
             /\ start_search_index' = Max(0, Len(msg) - (Len(sep) - 1))
             /\ outcome' = "pending"
             /\ result' = None
             /\ UNCHANGED <<delivered, replaced>>

(* recv_to_separator that reads from the socket although a backlog waits *)
recv_to_separator_IgnoresBacklog(sep) ==
    /\ pc = "idle"
    /\ op' = "recv_to_separator"
    /\ separator' = sep
    /\ startBacklog' = backlog_bytes
    /\ callStart' = Len(rx) - BacklogLen(backlog_bytes)
    /\ nreads' = 0
    /\ lastRead' = "none"
    /\ pc' = "rts"
    /\ msg_bytes' = IF backlog_bytes # None THEN backlog_bytes ELSE <<>>
    /\ start_search_index' = 0
    /\ outcome' = "pending"
    /\ result' = None
    /\ backlog_bytes' = None
    /\ length' = 0
    /\ UNCHANGED <<sockTimeout, timeout, wire, peerOpen, rx, readsEver, lostEnd,
                   delivered, replaced>>

(* The call up to its first socket read: the backlog, when there is one,   *)
(* is the first chunk.                                                     *)
recv_to_separator(sep) ==
    /\ pc = "idle"
    /\ op' = "recv_to_separator"
    /\ separator' = sep
    /\ startBacklog' = backlog_bytes
    /\ callStart' = Len(rx) - BacklogLen(backlog_bytes)
    /\ nreads' = 0
    /\ lastRead' = "none"
    /\ IF backlog_bytes # None /\ Len(backlog_bytes) > 0
       THEN RtsLoop(<<>>, backlog_bytes, sep, 0)
       ELSE /\ pc' = "rts"
            /\ msg_bytes' = <<>>
            /\ start_search_index' = 0
            /\ outcome' = "pending"
            /\ result' = None
            /\ UNCHANGED <<backlog_bytes, delivered, replaced>>
    /\ length' = 0
    /\ UNCHANGED <<sockTimeout, timeout, wire, peerOpen, rx, readsEver, lostEnd>>

(* chunk = self.sock.recv(4096) returned k bytes *)
RtsChunk(k) ==
    /\ pc = "rts"
    /\ k \in SockRecvSizes(ReadChunkSize)
    /\ LET chunk == SubSeq(wire, 1, k)
       IN  /\ TookChunk(chunk)
           /\ RtsLoop(msg_bytes, chunk, separator, start_search_index)
    /\ UNCHANGED <<op, length, separator, sockTimeout, timeout, startBacklog,
                   callStart, lostEnd>>

(* RtsEmpty that takes the end of the stream for the end of the message *)
RtsEmpty_ReturnsPartial ==
    /\ pc = "rts"
    /\ SockAtEof
    /\ lastRead' = "empty"
    /\ pc' = "idle"
    /\ outcome' = "ok"
    /\ result' = msg_bytes
    /\ UNCHANGED <<backlog_bytes, msg_bytes, start_search_index, wire, peerOpen,
                   rx, nreads, readsEver, lostEnd, delivered, replaced>>
    /\ UNCHANGED <<op, length, separator, sockTimeout, timeout, startBacklog, callStart>>

(* chunk == b'': raise RuntimeError("socket connection broken") *)
RtsEmpty ==
    /\ pc = "rts"
    /\ SockAtEof
    /\ lastRead' = "empty"
    /\ Raise("ConnectionBroken", msg_bytes)
    /\ UNCHANGED <<op, length, separator, sockTimeout, timeout, startBacklog, callStart>>

(* RtsTimeout that puts what was accumulated back as the backlog *)
RtsTimeout_KeepsBytes ==
    /\ pc = "rts"
    /\ SockMayTimeOut
    /\ lastRead' = "timeout"
    /\ pc' = "idle"
    /\ outcome' = "Timeout"
    /\ result' = None
    /\ backlog_bytes' = msg_bytes
    /\ lostEnd' = Len(rx)
    /\ delivered' = <<>>
    /\ UNCHANGED <<msg_bytes, start_search_index, wire, peerOpen, rx, nreads,
                   readsEver, replaced>>
    /\ UNCHANGED <<op, length, separator, sockTimeout, timeout, startBacklog, callStart>>

(* self.sock.recv raises the socket's timeout *)
RtsTimeout ==
    /\ pc = "rts"
    /\ SockMayTimeOut
    /\ lastRead' = "timeout"
    /\ Raise("Timeout", msg_bytes)
    /\ UNCHANGED <<op, length, separator, sockTimeout, timeout, startBacklog, callStart>>

----------------------------------------------------------------------------
(* send(msg_bytes) *)

(* SentChunk of a loop that passes msg_bytes, not msg_bytes[total_nr_sent:] *)
SentChunk_FromStart(k) == SubSeq(s_msg, 1, k)

(* msg_bytes[total_nr_sent:][:k], the bytes a write that returns k accepted *)
SentChunk(k) == SubSeq(s_msg, total_nr_sent + 1, total_nr_sent + k)

(* The loop test with `total` bytes sent; when it fails, return total. *)
SendLoop(m, total) ==
    IF total < Len(m)
    THEN /\ s_pc' = "send"
         /\ s_outcome' = "pending"
         /\ s_result' = NoCount
    ELSE /\ s_pc' = "idle"
         /\ s_outcome' = "ok"
         /\ s_result' = total

(* The call up to its first socket write *)
send(m) ==
    /\ s_pc = "idle"
    /\ s_msg' = m
    /\ total_nr_sent' = 0
    /\ accepted' = <<>>
    /\ nwrites' = 0
    /\ wroteZero' = FALSE
    /\ SendLoop(m, 0)

(* current_nr_sent = self.sock.send(msg_bytes[total_nr_sent:]) returned k > 0 *)
SendWrite(k) ==
    /\ s_pc = "send"
    /\ k \in 1..(Len(s_msg) - total_nr_sent)
    /\ total_nr_sent' = total_nr_sent + k
    /\ accepted' = accepted \o SentChunk(k)
    /\ nwrites' = nwrites + 1
    /\ SendLoop(s_msg, total_nr_sent + k)
    /\ UNCHANGED <<s_msg, wroteZero>>

(* SendZero that goes round the loop again instead of raising *)
SendZero_Retries ==
    /\ s_pc = "send"
    /\ s_pc' = "send"
    /\ s_outcome' = "pending"
    /\ s_result' = NoCount
    /\ nwrites' = nwrites + 1
    /\ wroteZero' = TRUE
    /\ UNCHANGED <<s_msg, total_nr_sent, accepted>>

(* current_nr_sent == 0: raise RuntimeError("socket connection broken") *)
SendZero ==
    /\ s_pc = "send"
    /\ s_pc' = "idle"
    /\ s_outcome' = "ConnectionBroken"
    /\ s_result' = NoCount
    /\ nwrites' = nwrites + 1
    /\ wroteZero' = TRUE
    /\ UNCHANGED <<s_msg, total_nr_sent, accepted>>

(* self.sock.send raises the socket's timeout, which send does not catch *)
SendTimeout ==
    /\ s_pc = "send"
    /\ SockMayTimeOut
    /\ s_pc' = "idle"
    /\ s_outcome' = "Timeout"
    /\ s_result' = NoCount
    /\ nwrites' = nwrites + 1
    /\ UNCHANGED <<s_msg, total_nr_sent, accepted, wroteZero>>

----------------------------------------------------------------------------
(* One instance reading a stream the peer has written in full and closed. *)

InitInstance ==
    /\ backlog_bytes = None
    /\ pc = "idle"
    /\ op = "none"
    /\ length = 0
    /\ timeout = "None"
    /\ separator = <<>>
    /\ msg_bytes = <<>>
    /\ start_search_index = 0
    /\ outcome = "none"
    /\ result = None
    /\ rx = <<>>
    /\ nreads = 0
    /\ readsEver = 0
    /\ lastRead = "none"
    /\ startBacklog = None
    /\ callStart = 0
    /\ lostEnd = 0
    /\ delivered = <<>>
    /\ replaced = None

InitSender ==
    /\ s_pc = "idle"
    /\ s_msg = <<>>
    /\ total_nr_sent = 0
    /\ s_outcome = "none"
    /\ s_result = NoCount
    /\ accepted = <<>>
    /\ nwrites = 0
    /\ wroteZero = FALSE

InitNoCaller ==
    /\ MSG_SEP = <<>>
    /\ messages = <<>>
    /\ msgIdx = 1
    /\ received = <<>>

(* DeadlineQueue.__init__ and its consumer threads, none of them in get() *)
InitQueueInstance ==
    /\ dq_queue = <<>>
    /\ dq_count = 0
    /\ cv_waiters = <<>>
    /\ get_pc = [t \in Threads |-> "idle"]
    /\ element = [t \in Threads |-> NoElement]
    /\ puts = <<>>
    /\ waited = [t \in Threads |-> FALSE]
    /\ dq_call = [t \in Threads |-> "none"]
    /\ gotten = <<>>
    /\ qsize_ret = NoSize

(* The log directory.  A name is the index of the rotation and the suffix *)
(* after it: `file_name` itself is index 0, `file_name.k` is (k, ""),      *)
(* `file_name.k.gz` is (k, ".gz").  A name holds nothing (NoFile) or a     *)
(* content, made of what was logged and of how it is encoded.              *)
Suffixes == {"", ".gz"}
Current == <<0, "">>
Rotated(k) == <<k, "">>
RotatedGz(k) == <<k, ".gz">>
FileNames == {Current} \cup ((1..(MaxRotation + 1)) \X Suffixes)
NoFile == <<>>
EmptyDir == [name \in FileNames |-> NoFile]

(* No function of utilities.py has been called, the directory is empty *)
InitNoUtil ==
    /\ u_call = "none"
    /\ u_args = <<>>
    /\ u_ret = None
    /\ files = EmptyDir

(* The threads of the demo of deadlinequeue.py *)
DemoThreads == {"producer", "consumer", "demo"}

(* The demo of deadlinequeue.py is not run *)
InitNoDemo ==
    /\ now = 0
    /\ terminate_event = FALSE
    /\ end_barrier = [waiting |-> {}, broken |-> FALSE]
    /\ demo_pc = [th \in DemoThreads |-> "done"]
    /\ produced = 0

(* The locals of a thread that is in no receive call and has made none *)
IdleLocals == <<"idle", "none", 0, "None", <<>>, <<>>, 0, "none", None>>

(* One thread only uses the socket instance *)
InitOneThread ==
    /\ parked = IdleLocals
    /\ overlapped = FALSE

(* ChunkyStreamSocket.py: the instance after construction, in no call *)
InitLegacy ==
    legacy = [backlog_bytes |-> None, pc |-> "idle", msg_bytes |-> <<>>,
              start_search_index |-> 0, outcome |-> "none", result |-> None,
              s_pc |-> "idle", total_nr_sent |-> 0, s_outcome |-> "none",
              s_result |-> NoCount]

(* What the specifications of the sockets and of the queue leave alone *)
InitOther ==
    /\ InitNoUtil
    /\ InitNoDemo
    /\ InitOneThread
    /\ InitLegacy

Init ==
    /\ InitInstance
    /\ InitSender
    /\ InitQueueInstance
    /\ InitOther
    /\ InitNoCaller
    /\ sockTimeout = "None"
    /\ wire \in BSeq(0, MaxWire)
    /\ peerOpen = FALSE

(* the frame of a step of the receiving calls *)
ReceiverOnly == UNCHANGED <<sendVars, callerVars, queueVars, otherVars>>

Next ==
    \/ \E len \in Lengths, t \in TimeoutValues : recv(len, t) /\ ReceiverOnly
    \/ \E k \in 1..MaxWire : RecvChunk(k) /\ ReceiverOnly
    \/ RecvEmpty /\ ReceiverOnly
    \/ RecvTimeout /\ ReceiverOnly
    \/ \E sep \in Separators : recv_to_separator(sep) /\ ReceiverOnly
    \/ \E k \in 1..MaxWire : RtsChunk(k) /\ ReceiverOnly
    \/ RtsEmpty /\ ReceiverOnly
    \/ RtsTimeout /\ ReceiverOnly

Spec == Init /\ [][Next]_vars

----------------------------------------------------------------------------
(* One instance sending to a peer that is not modelled.  The socket was    *)
(* connected by connect(timeout), which leaves its timeout on the socket.  *)

InitSend ==
    /\ InitInstance
    /\ InitSender
    /\ InitQueueInstance
    /\ InitOther
    /\ InitNoCaller
    /\ sockTimeout \in TimeoutValues
    /\ wire = <<>>
    /\ peerOpen = TRUE

(* the frame of a step of send *)
SenderOnly == UNCHANGED <<instVars, recvVars, recvHist, netVars, callerVars, queueVars, otherVars>>

NextSend ==
    \/ \E m \in BSeq(0, MaxSendLen) : send(m) /\ SenderOnly
    \/ \E k \in 1..MaxSendLen : SendWrite(k) /\ SenderOnly
    \/ SendZero /\ SenderOnly
    \/ SendTimeout /\ SenderOnly

SpecSend == InitSend /\ [][NextSend]_vars

----------------------------------------------------------------------------
(* The demo of the module: a client instance sends the messages, each      *)
(* followed by MSG_SEP, to a server instance that calls recv_to_separator  *)
(* in a loop.  Both sockets block (connect() and accept() set no timeout)  *)
(* and the connection stays up: every write is accepted at least in part.  *)
(* The socket may hand the server the stream in chunks of any sizes.       *)

(* b'\0\1\2\1\0' *)
DemoSeparator == <<0, 1, 2, 1, 0>>
(* b'+++', the message that ends the server's loop *)
EofMessage == <<43, 43, 43>>
(* the demo's messages, bytes as their ASCII codes *)
DemoMessages ==
    << <<97, 98, 99, 100, 101, 102>>,
       <<49, 50, 51, 52>>,
       <<97>>, <<98, 99>>, <<100, 101, 0>>, <<1, 2, 1, 0, 102, 103, 104, 105>>,
       <<120, 121, 122, 90, 89, 88>>,
       <<>>,
       EofMessage >>

(* What the caller of a receive step keeps: server() logs each message *)
Logged ==
    received' = IF pc' = "idle" /\ outcome' = "ok"
                THEN Append(received, result')
                ELSE received

(* client(): for message in messages: client_socket.send(message + MSG_SEP) *)
client ==
    /\ msgIdx <= Len(messages)
    /\ send(messages[msgIdx] \o MSG_SEP)
    /\ msgIdx' = msgIdx + 1
    /\ UNCHANGED <<MSG_SEP, messages, received>>
    /\ UNCHANGED <<instVars, recvVars, recvHist, netVars, queueVars, otherVars>>

(* a write of the client: the accepted bytes travel to the server *)
ClientWrite(k) ==
    /\ SendWrite(k)
    /\ wire' = wire \o SentChunk(k)
    /\ UNCHANGED <<instVars, recvVars, recvHist, peerOpen, callerVars, queueVars, otherVars>>

(* server(): msg = cs.recv_to_separator(MSG_SEP) until msg == b'+++' *)
server ==
    /\ IF received = <<>> THEN TRUE ELSE received[Len(received)] # EofMessage
    /\ recv_to_separator(MSG_SEP)
    /\ Logged
    /\ UNCHANGED <<MSG_SEP, messages, msgIdx>>
    /\ UNCHANGED <<sendVars, queueVars, otherVars>>

(* a read of the server *)
ServerRead(k) ==
    /\ RtsChunk(k)
    /\ Logged
    /\ UNCHANGED <<MSG_SEP, messages, msgIdx>>
    /\ UNCHANGED <<sendVars, queueVars, otherVars>>

(* message + MSG_SEP for every message, in order: what client() sends *)
RECURSIVE Stream(_, _)
Stream(msgs, sep) ==
    IF msgs = <<>> THEN <<>>
    ELSE msgs[1] \o sep \o Stream(Tail(msgs), sep)

(* The client has sent every message; the server has yet to read. *)
InitDemo ==
    /\ InitInstance
    /\ InitSender
    /\ InitQueueInstance
    /\ InitOther
    /\ sockTimeout = "None"
    /\ wire = Stream(DemoMessages, DemoSeparator)
    /\ peerOpen = TRUE
    /\ MSG_SEP = DemoSeparator
    /\ messages = DemoMessages
    /\ msgIdx = Len(DemoMessages) + 1
    /\ received = <<>>

NextDemo ==
    \/ server
    \/ \E k \in 1..Len(Stream(DemoMessages, DemoSeparator)) : ServerRead(k)

SpecDemo == InitDemo /\ [][NextDemo]_vars

----------------------------------------------------------------------------
(* A framed exchange: the same two ends, for every separator and every one *)
(* or two messages within the bounds.  The receiving end calls             *)
(* recv_to_separator once for each message that was sent.                  *)

InitExchange ==
    /\ InitInstance
    /\ InitSender
    /\ InitQueueInstance
    /\ InitOther
    /\ sockTimeout = "None"
    /\ wire = <<>>
    /\ peerOpen = TRUE
    /\ MSG_SEP \in Separators
    /\ messages \in [1..1 -> BSeq(0, MaxMsgLen)] \cup [1..2 -> BSeq(0, MaxPairLen)]
    /\ msgIdx = 1
    /\ received = <<>>

receiver ==
    /\ Len(received) < Len(messages)
    /\ recv_to_separator(MSG_SEP)
    /\ Logged
    /\ UNCHANGED <<MSG_SEP, messages, msgIdx>>
    /\ UNCHANGED <<sendVars, queueVars, otherVars>>

NextExchange ==
    \/ client
    \/ \E k \in 1..(MaxMsgLen + MaxSepLen) : ClientWrite(k)
    \/ receiver
    \/ \E k \in 1..(2 * (MaxMsgLen + MaxSepLen)) : ServerRead(k)

SpecExchange == InitExchange /\ [][NextExchange]_vars

----------------------------------------------------------------------------
(* One instance whose callers pass arguments of any kind: lengths below 0  *)
(* and the empty separator as well as the arguments the docstrings allow.  *)

AnyLengths == (-MaxNegLength)..MaxLength
AnySeparators == BSeq(0, MaxSepLen)

InitAnyArgs ==
    /\ InitInstance
    /\ InitSender
    /\ InitQueueInstance
    /\ InitOther
    /\ InitNoCaller
    /\ sockTimeout = "None"
    /\ wire \in BSeq(0, MaxArgWire)
    /\ peerOpen = FALSE

NextAnyArgs ==
    \/ \E len \in AnyLengths, t \in TimeoutValues : recv(len, t) /\ ReceiverOnly
    \/ \E k \in 1..MaxArgWire : RecvChunk(k) /\ ReceiverOnly
    \/ RecvEmpty /\ ReceiverOnly
    \/ RecvTimeout /\ ReceiverOnly
    \/ \E sep \in AnySeparators : recv_to_separator(sep) /\ ReceiverOnly
    \/ \E k \in 1..MaxArgWire : RtsChunk(k) /\ ReceiverOnly
    \/ RtsEmpty /\ ReceiverOnly
    \/ RtsTimeout /\ ReceiverOnly

SpecAnyArgs == InitAnyArgs /\ [][NextAnyArgs]_vars

----------------------------------------------------------------------------
(* The receiving calls when every blocking socket read does end: with a    *)
(* chunk, with b'' or with the socket's timeout.                           *)

SockRead ==
    \/ \E k \in 1..MaxWire : RecvChunk(k) /\ ReceiverOnly
    \/ RecvEmpty /\ ReceiverOnly
    \/ RecvTimeout /\ ReceiverOnly
    \/ \E k \in 1..MaxWire : RtsChunk(k) /\ ReceiverOnly
    \/ RtsEmpty /\ ReceiverOnly
    \/ RtsTimeout /\ ReceiverOnly

InitReadsEnd ==
    /\ InitInstance
    /\ InitSender
    /\ InitQueueInstance
    /\ InitOther
    /\ InitNoCaller
    /\ sockTimeout = "None"
    /\ wire \in BSeq(0, MaxEndWire)
    /\ peerOpen = FALSE

SpecReadsEnd == InitReadsEnd /\ [][Next]_vars /\ WF_vars(SockRead)

----------------------------------------------------------------------------
(* DeadlineQueue (deadlinequeue.py): a heap of (deadline, idx, item)       *)
(* tuples behind a condition variable.  The body of a `with self._cv:`     *)
(* block runs with the lock held, so it is one step; a get() that finds    *)
(* the queue empty gives the lock up inside self._cv.wait() and goes on    *)
(* in a later step, after a notify() has woken it.                         *)

(* (deadline, idx, item) < (deadline, idx, item), as Python orders tuples *)
TupleLess(x, y) ==
    \/ x[1] < y[1]
    \/ x[1] = y[1] /\ x[2] < y[2]
    \/ x[1] = y[1] /\ x[2] = y[2] /\ x[3] < y[3]

(* heapq.heappush(heap, e).  heapq keeps the least tuple at heap[0]; the   *)
(* list is held in ascending order, which is one of the heap orders.       *)
heappush(heap, e) ==
    LET k == Cardinality({i \in 1..Len(heap) : ~TupleLess(e, heap[i])})
    IN  SubSeq(heap, 1, k) \o <<e>> \o SubSeq(heap, k + 1, Len(heap))

(* self._cv.notify(): the thread that has waited longest is woken *)
notify ==
    IF cv_waiters = <<>>
    THEN UNCHANGED <<cv_waiters, get_pc>>
    ELSE /\ get_pc' = [get_pc EXCEPT ![Head(cv_waiters)] = "notified"]
         /\ cv_waiters' = Tail(cv_waiters)

(* put that does not notify the condition *)
put_NoNotify(deadline, item) ==
    /\ dq_queue' = heappush(dq_queue, <<deadline, dq_count, item>>)
    /\ dq_count' = dq_count + 1
    /\ puts' = Append(puts, <<deadline, item>>)
    /\ UNCHANGED <<cv_waiters, get_pc>>
    /\ UNCHANGED <<element, waited, dq_call, gotten, qsize_ret>>

(* put that gives every element the same idx *)
put_SameIdx(deadline, item) ==
    /\ dq_queue' = heappush(dq_queue, <<deadline, dq_count, item>>)
    /\ dq_count' = dq_count
    /\ puts' = Append(puts, <<deadline, item>>)
    /\ notify
    /\ UNCHANGED <<element, waited, dq_call, gotten, qsize_ret>>

(* put((deadline, item)) *)
put(deadline, item) ==
    /\ dq_queue' = heappush(dq_queue, <<deadline, dq_count, item>>)
    /\ dq_count' = dq_count + 1
    /\ puts' = Append(puts, <<deadline, item>>)
    /\ notify
    /\ UNCHANGED <<element, waited, dq_call, gotten, qsize_ret>>

(* get(), with the lock held: the loop test, then wait() or heappop() *)
GetLoop(t) ==
    IF Len(dq_queue) = 0
    THEN /\ get_pc' = [get_pc EXCEPT ![t] = "waiting"]
         /\ cv_waiters' = Append(cv_waiters, t)
         /\ element' = [element EXCEPT ![t] = NoElement]
         /\ waited' = [waited EXCEPT ![t] = TRUE]
         /\ UNCHANGED <<dq_queue, gotten>>
    ELSE /\ get_pc' = [get_pc EXCEPT ![t] = "idle"]
         /\ element' = [element EXCEPT ![t] = Head(dq_queue)]
         /\ dq_queue' = Tail(dq_queue)
         /\ gotten' = Append(gotten, Head(dq_queue))
         /\ waited' = [waited EXCEPT ![t] = get_pc[t] # "idle"]
         /\ UNCHANGED cv_waiters

(* thread t calls get() *)
get(t) ==
    /\ get_pc[t] = "idle"
    /\ dq_call' = [dq_call EXCEPT ![t] = "get"]
    /\ GetLoop(t)
    /\ UNCHANGED <<dq_count, puts, qsize_ret>>

(* thread t, notified, comes back from wait() with the lock held *)
GetWake(t) ==
    /\ get_pc[t] = "notified"
    /\ dq_call[t] = "get"
    /\ GetLoop(t)
    /\ UNCHANGED <<dq_count, puts, dq_call, qsize_ret>>

(* PeekLoop that takes the element out of the queue, as get() does *)
PeekLoop_Pops(t) ==
    IF Len(dq_queue) = 0
    THEN /\ get_pc' = [get_pc EXCEPT ![t] = "waiting"]
         /\ cv_waiters' = Append(cv_waiters, t)
         /\ element' = [element EXCEPT ![t] = NoElement]
         /\ waited' = [waited EXCEPT ![t] = TRUE]
         /\ UNCHANGED <<dq_queue, gotten>>
    ELSE /\ get_pc' = [get_pc EXCEPT ![t] = "idle"]
         /\ element' = [element EXCEPT ![t] = dq_queue[1]]
         /\ dq_queue' = Tail(dq_queue)
         /\ waited' = [waited EXCEPT ![t] = get_pc[t] # "idle"]
         /\ UNCHANGED <<gotten, cv_waiters>>

(* peek(), with the lock held: the loop test, then wait() or self._queue[0] *)
PeekLoop(t) ==
    IF Len(dq_queue) = 0
    THEN /\ get_pc' = [get_pc EXCEPT ![t] = "waiting"]
         /\ cv_waiters' = Append(cv_waiters, t)
         /\ element' = [element EXCEPT ![t] = NoElement]
         /\ waited' = [waited EXCEPT ![t] = TRUE]
         /\ UNCHANGED <<dq_queue, gotten>>
    ELSE /\ get_pc' = [get_pc EXCEPT ![t] = "idle"]
         /\ element' = [element EXCEPT ![t] = dq_queue[1]]
         /\ waited' = [waited EXCEPT ![t] = get_pc[t] # "idle"]
         /\ UNCHANGED <<dq_queue, gotten, cv_waiters>>

(* thread t calls peek() *)
peek(t) ==
    /\ get_pc[t] = "idle"
    /\ dq_call' = [dq_call EXCEPT ![t] = "peek"]
    /\ PeekLoop(t)
    /\ UNCHANGED <<dq_count, puts, qsize_ret>>

(* thread t, notified inside peek(), comes back from wait() *)
PeekWake(t) ==
    /\ get_pc[t] = "notified"
    /\ dq_call[t] = "peek"
    /\ PeekLoop(t)
    /\ UNCHANGED <<dq_count, puts, dq_call, qsize_ret>>

(* thread t calls qsize() *)
qsize(t) ==
    /\ get_pc[t] = "idle"
    /\ qsize_ret' = <<Len(dq_queue), Len(puts), Len(gotten)>>
    /\ UNCHANGED <<dq_queue, dq_count, cv_waiters, get_pc, element, puts, waited,
                   dq_call, gotten>>

InitQueue ==
    /\ InitInstance
    /\ InitSender
    /\ InitQueueInstance
    /\ InitOther
    /\ InitNoCaller
    /\ sockTimeout = "None"
    /\ wire = <<>>
    /\ peerOpen = FALSE

(* the frame of a step of the queue *)
QueueOnly == UNCHANGED <<instVars, recvVars, recvHist, netVars, sendVars, callerVars,
                         otherVars>>

NextQueue ==
    \/ \E deadline \in Deadlines, item \in Items :
           Len(puts) < MaxPuts /\ put(deadline, item) /\ QueueOnly
    \/ \E t \in Consumers : get(t) /\ QueueOnly
    \/ \E t \in Consumers : GetWake(t) /\ QueueOnly

SpecQueue == InitQueue /\ [][NextQueue]_vars

(* A thread that was notified does get to run and to take the lock again. *)
SpecQueueFair ==
    /\ InitQueue
    /\ [][NextQueue]_vars
    /\ \A t \in Consumers : WF_vars(GetWake(t) /\ QueueOnly)

(* Several threads on one queue, each calling get(), peek() and qsize() *)
NextThreads ==
    \/ \E deadline \in Deadlines, item \in ThreadItems :
           Len(puts) < MaxPuts /\ put(deadline, item) /\ QueueOnly
    \/ \E t \in Threads : get(t) /\ QueueOnly
    \/ \E t \in Threads : GetWake(t) /\ QueueOnly
    \/ \E t \in Threads : peek(t) /\ QueueOnly
    \/ \E t \in Threads : PeekWake(t) /\ QueueOnly
    \/ \E t \in Threads : qsize(t) /\ QueueOnly

SpecThreads == InitQueue /\ [][NextThreads]_vars

(* A thread that was notified does get to run and to take the lock again. *)
SpecThreadsFair ==
    /\ InitQueue
    /\ [][NextThreads]_vars
    /\ \A t \in Threads : WF_vars(GetWake(t) /\ QueueOnly)
    /\ \A t \in Threads : WF_vars(PeekWake(t) /\ QueueOnly)

----------------------------------------------------------------------------
(* Properties of the framed exchange (SpecExchange) and of the demo        *)
(* (SpecDemo)                                                              *)

(* sub occurs somewhere in s *)
Occurs(sub, s) ==
    \E i \in 0..(Len(s) - Len(sub)) : SubSeq(s, i + 1, i + Len(sub)) = sub

(* In m + sep the separator occurs first at offset len(m): no occurrence   *)
(* starts inside m, whether it ends in m or runs into the separator sent.  *)
CleanFrame(m, sep) ==
    \A i \in 0..(Len(m) - 1) : SubSeq(m \o sep, i + 1, i + Len(sep)) # sep

(* No receive call of the exchange has raised *)
NoFailure == outcome \in {"none", "pending", "ok"}

(* C1 as stated: whenever the first message sent does not contain the      *)
(* separator, the first recv_to_separator of the fresh receiving instance  *)
(* returns exactly that message.                                           *)
C1_RoundTrip_AsStated ==
    (Len(received) >= 1 /\ ~Occurs(MSG_SEP, messages[1]))
        => received[1] = messages[1]

(* C1 amended: whenever the separator occurs in m + separator first at     *)
(* offset len(m), the first recv_to_separator of the fresh receiving       *)
(* instance returns exactly m, and it does not raise.                      *)
C1_RoundTrip ==
    /\ NoFailure
    /\ (Len(received) >= 1 /\ CleanFrame(messages[1], MSG_SEP))
           => received[1] = messages[1]

(* a message of the longest kind came back through a two-byte separator *)
C1_Witness ==
    /\ Len(received) >= 1
    /\ CleanFrame(messages[1], MSG_SEP)
    /\ Len(messages[1]) >= 2
    /\ Len(MSG_SEP) >= 2
    /\ received[1] = messages[1]

(* the receiving end has read the whole of a one-message stream *)
WholeStreamRead == Len(messages) = 1 /\ rx = messages[1] \o MSG_SEP

(* C2 as stated: for a message that does not contain the separator, once   *)
(* the chunks of m + separator have all arrived, however the bytes were    *)
(* split, recv_to_separator has returned exactly m.                        *)
C2_ChunkIndependence_AsStated ==
    (WholeStreamRead /\ ~Occurs(MSG_SEP, messages[1]))
        => (pc = "idle" /\ received = <<messages[1]>>)

(* C2 amended: the same for a message m such that the separator occurs in  *)
(* m + separator first at offset len(m); nothing is left as backlog.       *)
C2_ChunkIndependence ==
    (WholeStreamRead /\ CleanFrame(messages[1], MSG_SEP))
        => /\ pc = "idle"
           /\ outcome = "ok"
           /\ received = <<messages[1]>>
           /\ backlog_bytes = <<>>

(* m came back although a chunk ended inside the separator: the search     *)
(* that found it started len(separator) - 1 bytes before a chunk boundary  *)
(* that lies strictly between the separator's first and last byte.         *)
C2_Witness ==
    /\ WholeStreamRead
    /\ received = <<messages[1]>>
    /\ messages[1] # <<>>
    /\ start_search_index > 0
    /\ Len(messages[1]) < start_search_index + Len(MSG_SEP) - 1
    /\ start_search_index + Len(MSG_SEP) - 1 < Len(messages[1]) + Len(MSG_SEP)

(* C3: in the demo the server receives the client's messages, in order and *)
(* unchanged, whatever the chunks: what it has received is always a prefix *)
(* of the list sent, it never waits for bytes that will not come, and its  *)
(* loop ends with the whole list received.                                 *)
C3_DemoSequence ==
    /\ NoFailure
    /\ Len(received) <= Len(messages)
    /\ \A i \in 1..Len(received) : received[i] = messages[i]
    /\ ~(pc = "rts" /\ wire = <<>>)
    /\ (received # <<>> /\ received[Len(received)] = EofMessage)
           => received = messages

(* all nine messages are in, the empty one included *)
C3_Witness ==
    /\ received = DemoMessages
    /\ pc = "idle"

(* the first socket read of the receiving end took the whole stream of a   *)
(* two-message exchange                                                    *)
AllInOneRead ==
    /\ Len(messages) = 2
    /\ readsEver = 1
    /\ rx = Stream(messages, MSG_SEP)

(* what C4 promises once the whole stream arrived in one read *)
ServedFromBacklog ==
    /\ pc = "idle"
    /\ Len(received) >= 1
    /\ received[1] = messages[1]
    /\ backlog_bytes = IF Len(received) = 1 THEN messages[2] \o MSG_SEP ELSE <<>>
    /\ Len(received) = 2 => (received[2] = messages[2] /\ nreads = 0)

(* C4 as stated: if m1 + separator + m2 + separator arrives in one read,   *)
(* the first call returns m1 and the second returns m2 without a read.     *)
(* Read in the claim's favour: for messages that do not contain the        *)
(* separator.                                                              *)
C4_Backlog_AsStated ==
    (/\ AllInOneRead
     /\ ~Occurs(MSG_SEP, messages[1])
     /\ ~Occurs(MSG_SEP, messages[2]))
        => ServedFromBacklog

(* C4 amended: the same for messages m1, m2 such that the separator occurs *)
(* in m1 + separator first at len(m1) and in m2 + separator at len(m2).    *)
C4_Backlog ==
    (/\ AllInOneRead
     /\ CleanFrame(messages[1], MSG_SEP)
     /\ CleanFrame(messages[2], MSG_SEP))
        => ServedFromBacklog

(* the second call has returned a non-empty m2 out of the backlog *)
C4_Witness ==
    /\ AllInOneRead
    /\ CleanFrame(messages[1], MSG_SEP)
    /\ CleanFrame(messages[2], MSG_SEP)
    /\ received = messages
    /\ messages[2] # <<>>
    /\ startBacklog = messages[2] \o MSG_SEP
    /\ nreads = 0

----------------------------------------------------------------------------
(* Properties of the receiving calls on one instance (Spec)                *)

(* The bytes the current call has had: the backlog it took, then its reads *)
CallBytes == SubSeq(rx, callStart + 1, Len(rx))

(* the call that ended last *)
Returned(o) == pc = "idle" /\ op = o /\ outcome = "ok"
Raised(o, exc) == pc = "idle" /\ op = o /\ outcome = exc

(* C5: a recv(length, timeout) that returns, returns exactly length bytes: *)
(* the first length bytes of the backlog it found followed by its reads.   *)
C5_RecvExactLength ==
    Returned("recv")
        => /\ Len(result) = length
           /\ \A i \in 1..Len(result) : result[i] \in Byte
           /\ result = SubSeq(CallBytes, 1, length)

(* recv returned after a backlog shorter than length and two socket reads *)
C5_Witness ==
    /\ Returned("recv")
    /\ startBacklog # None
    /\ 0 < Len(startBacklog)
    /\ Len(startBacklog) < length
    /\ nreads >= 2

(* recv asks the socket for no more than it still needs, so a read never   *)
(* takes it past length: what recv leaves as backlog was in the backlog    *)
(* it took, and a recv that read from the socket leaves none.              *)
RecvNeverOverReads ==
    /\ pc = "recv" => Len(msg_bytes) < length
    /\ (Returned("recv") /\ nreads > 0)
           => (Len(CallBytes) = length /\ backlog_bytes = None)

(* C7: a socket read that returns b'' ends the call with ConnectionBroken  *)
(* and without a result; a call that returns has its whole message: recv   *)
(* has length bytes, and recv_to_separator has the bytes up to a separator *)
(* that did arrive.                                                        *)
C7_BrokenConnection ==
    /\ lastRead = "empty" => (pc = "idle" /\ outcome = "ConnectionBroken")
    /\ outcome = "ConnectionBroken" => (lastRead = "empty" /\ result = None)
    /\ Returned("recv")
           => /\ Len(result) = length
              /\ CallBytes = result \o (IF backlog_bytes = None THEN <<>>
                                        ELSE backlog_bytes)
    /\ Returned("recv_to_separator")
           => CallBytes = result \o separator \o backlog_bytes

(* recv_to_separator raised on b'' with part of a message accumulated *)
C7_Witness ==
    /\ Raised("recv_to_separator", "ConnectionBroken")
    /\ lastRead = "empty"
    /\ msg_bytes # <<>>
    /\ nreads >= 1

(* C10: a recv whose socket read times out raises Timeout and leaves no    *)
(* backlog: all it had accumulated, the backlog it took included, is gone, *)
(* and the bytes of every later call lie after the dropped ones in the     *)
(* stream read from the socket.                                            *)
C10_RecvTimeoutDrops ==
    /\ Raised("recv", "Timeout")
           => /\ backlog_bytes = None
              /\ result = None
              /\ msg_bytes = CallBytes
              /\ lostEnd = Len(rx)
    /\ outcome \in {"pending", "ok"} => callStart >= lostEnd
    /\ outcome = "ok"
           => result = SubSeq(rx, callStart + 1, callStart + Len(result))

(* recv timed out after it took a backlog and read a chunk *)
C10_Witness ==
    /\ Raised("recv", "Timeout")
    /\ startBacklog # None
    /\ Len(startBacklog) >= 1
    /\ nreads >= 1
    /\ Len(msg_bytes) > Len(startBacklog)
    /\ backlog_bytes = None

----------------------------------------------------------------------------
(* Properties of send (SpecSend)                                           *)

(* C8: while every write accepts at least one byte, send has made no more  *)
(* writes than it has sent bytes, and what the socket accepted is the part *)
(* of msg_bytes sent so far; so it ends after at most len(msg_bytes)       *)
(* writes, returns len(msg_bytes) and the socket accepted msg_bytes        *)
(* exactly; for an empty message it returns 0 without a write.             *)
C8_SendAll ==
    /\ s_outcome \in {"pending", "ok"}
           => /\ nwrites <= total_nr_sent
              /\ total_nr_sent <= Len(s_msg)
              /\ accepted = SubSeq(s_msg, 1, total_nr_sent)
    /\ s_pc = "send" => total_nr_sent < Len(s_msg)
    /\ (s_pc = "idle" /\ s_outcome = "ok")
           => /\ s_result = Len(s_msg)
              /\ accepted = s_msg
              /\ s_msg = <<>> => nwrites = 0

(* send returned after partial writes *)
C8_Witness ==
    /\ s_pc = "idle"
    /\ s_outcome = "ok"
    /\ Len(s_msg) >= 3
    /\ nwrites >= 2
    /\ s_result = Len(s_msg)

(* C9: a write that returns 0 ends send at once with ConnectionBroken: no  *)
(* byte count is returned and bytes remain unsent.                         *)
C9_SendBroken ==
    /\ wroteZero
           => /\ s_pc = "idle"
              /\ s_outcome = "ConnectionBroken"
              /\ s_result = NoCount
              /\ total_nr_sent < Len(s_msg)
    /\ s_outcome = "ConnectionBroken" => wroteZero

(* a write returned 0 after an earlier one was accepted in part *)
C9_Witness ==
    /\ wroteZero
    /\ s_outcome = "ConnectionBroken"
    /\ total_nr_sent > 0
    /\ nwrites >= 2

----------------------------------------------------------------------------
(* Properties of calls with arguments of any kind (SpecAnyArgs)            *)

(* C11: a recv_to_separator called with the empty separator is rejected at *)
(* the boundary: it ends at once with InvalidArgument, without a socket    *)
(* read and without returning a message.                                   *)
C11_EmptySeparatorRejected ==
    (op = "recv_to_separator" /\ separator = <<>>)
        => /\ pc = "idle"
           /\ outcome = "InvalidArgument"
           /\ result = None
           /\ nreads = 0

(* recv_to_separator(b'') returned b'' and left all it read as the backlog *)
C11_Witness ==
    /\ Returned("recv_to_separator")
    /\ separator = <<>>
    /\ result = <<>>
    /\ nreads = 1
    /\ Len(backlog_bytes) >= 1

(* C12: a recv called with a negative length is rejected at the boundary:  *)
(* it ends at once with InvalidArgument, returns no bytes and leaves the   *)
(* backlog as it was.                                                      *)
C12_NegativeLengthRejected ==
    (op = "recv" /\ length < 0)
        => /\ pc = "idle"
           /\ outcome = "InvalidArgument"
           /\ result = None
           /\ backlog_bytes = startBacklog

(* recv(-1) returned the backlog short of its last byte and kept that byte *)
C12_Witness ==
    /\ Returned("recv")
    /\ length < 0
    /\ startBacklog # None
    /\ Len(result) >= 1
    /\ result \o backlog_bytes = startBacklog
    /\ backlog_bytes # startBacklog

----------------------------------------------------------------------------
(* More properties of the receiving calls on one instance (Spec)           *)

(* a field or result that may be None, as bytes *)
BytesOf(b) == IF b = None THEN <<>> ELSE b

(* C13: a recv_to_separator that returns has cut the stream it consumed    *)
(* (the backlog it took, then its reads) at the first separator: consumed  *)
(* = result + separator + new backlog, no separator starts before the end  *)
(* of the result, and the result does not contain one.                     *)
C13_FirstOccurrence ==
    Returned("recv_to_separator")
        => /\ CallBytes = result \o separator \o backlog_bytes
           /\ CleanFrame(result, separator)
           /\ ~Occurs(separator, result)

(* the call cut at the first of two separators, after two socket reads *)
C13_Witness ==
    /\ Returned("recv_to_separator")
    /\ result # <<>>
    /\ Occurs(separator, backlog_bytes)
    /\ nreads >= 2

(* C14: the messages returned, each recv_to_separator result followed by   *)
(* its separator, then the backlog (or, during a call, what the call has   *)
(* accumulated) are exactly the bytes read from the socket, in order.  The *)
(* account starts at the last call that raised, if any: with successful    *)
(* calls only it starts at the first byte read.                            *)
C14_ByteOrder ==
    /\ lostEnd <= Len(rx)
    /\ pc = "idle"
           => delivered \o BytesOf(backlog_bytes) = SubSeq(rx, lostEnd + 1, Len(rx))
    /\ pc # "idle"
           => /\ delivered \o msg_bytes = SubSeq(rx, lostEnd + 1, Len(rx))
              /\ BytesOf(backlog_bytes) = <<>>
    /\ outcome \in {"none", "ok"} /\ lostEnd = 0 /\ pc = "idle"
           => delivered \o BytesOf(backlog_bytes) = rx

(* no call has raised; a recv has returned part of the backlog that an     *)
(* earlier recv_to_separator left, and a rest is still kept                *)
C14_Witness ==
    /\ Returned("recv")
    /\ lostEnd = 0
    /\ result # <<>>
    /\ Len(delivered) > Len(result)
    /\ backlog_bytes # None
    /\ delivered \o backlog_bytes = rx
    /\ Len(backlog_bytes) >= 1

(* C15: the instance has one backlog field, None or one byte string.  When *)
(* a call stores a new backlog the field is None or b'': the call has      *)
(* taken the previous backlog into its accumulation.  The same holds all   *)
(* the time a call waits for the socket.                                   *)
C15_SingleBacklog ==
    /\ backlog_bytes = None \/ backlog_bytes \in BSeq(0, MaxWire)
    /\ replaced \in {None, <<>>}
    /\ pc # "idle" => backlog_bytes \in {None, <<>>}

(* recv_to_separator took a backlog, read on, and stored a new backlog *)
C15_Witness ==
    /\ Returned("recv_to_separator")
    /\ startBacklog # None
    /\ Len(startBacklog) >= 1
    /\ nreads >= 1
    /\ Len(backlog_bytes) >= 1
    /\ replaced = None

(* C16 as stated, for a socket that was connected without a timeout: the   *)
(* timeout of a recv is gone when the call is over, so a later             *)
(* recv_to_separator finds a blocking socket and never times out.          *)
C16_TimeoutPerCall_AsStated ==
    op = "recv_to_separator"
        => /\ sockTimeout = "None"
           /\ outcome # "Timeout"

(* C16 amended: the timeout given to recv is set on the socket and stays   *)
(* there until the next recv replaces it; a recv_to_separator raises       *)
(* Timeout only when the last recv was given a timeout.                    *)
C16_TimeoutPersists ==
    /\ sockTimeout = timeout
    /\ Raised("recv_to_separator", "Timeout") => timeout = "seconds"
    /\ Raised("recv", "Timeout") => timeout = "seconds"

(* recv_to_separator timed out, on the timeout of an earlier recv *)
C16_Witness ==
    /\ Raised("recv_to_separator", "Timeout")
    /\ lastRead = "timeout"
    /\ timeout = "seconds"
    /\ sockTimeout = "seconds"

(* C20: recv reads only while it has fewer than length bytes, and never    *)
(* takes more than it still needs: it has never had more than length bytes *)
(* unless the backlog it took was longer.  A recv whose backlog holds      *)
(* length bytes or more (recv(0) with or without a backlog) returns        *)
(* without a read and keeps the rest of the backlog; a backlog left by     *)
(* recv is the rest of the backlog it took.                                *)
C20_RecvReadSizes ==
    /\ pc = "recv" => Len(msg_bytes) < length
    /\ op = "recv" => Len(CallBytes) <= Max(length, BacklogLen(startBacklog))
    /\ (op = "recv" /\ BacklogLen(startBacklog) >= length)
           => /\ Returned("recv")
              /\ nreads = 0
              /\ result \o BytesOf(backlog_bytes) = BytesOf(startBacklog)
    /\ (Returned("recv") /\ backlog_bytes # None)
           => /\ nreads = 0
              /\ startBacklog # None
              /\ backlog_bytes = SliceFrom(startBacklog, length)

(* recv returned the front of a longer backlog without a socket read *)
C20_Witness ==
    /\ Returned("recv")
    /\ length >= 1
    /\ startBacklog # None
    /\ Len(startBacklog) > length
    /\ nreads = 0
    /\ result = SliceTo(startBacklog, length)
    /\ backlog_bytes = SliceFrom(startBacklog, length)

----------------------------------------------------------------------------
(* Properties of the receiving calls when socket reads end (SpecReadsEnd)  *)

(* C19: a call that has ended has ended in one of three ways: it returned  *)
(* its message and stored the rest it had as the backlog, or it raised     *)
(* ConnectionBroken, or it raised Timeout, and then it returned nothing.   *)
(* A call that has not ended is waiting in a socket read.  When every      *)
(* socket read ends, every call ends.                                      *)
C19_StateMachine ==
    /\ [](pc \in {"idle", "recv", "rts"})
    /\ []((pc = "idle" /\ op # "none")
             => outcome \in {"ok", "ConnectionBroken", "Timeout"})
    /\ [](pc # "idle" => (outcome = "pending" /\ result = None))
    /\ [](outcome = "ok"
             => /\ result # None
                /\ CallBytes = result \o separator \o BytesOf(backlog_bytes))
    /\ [](outcome \in {"ConnectionBroken", "Timeout"} => result = None)
    /\ (pc # "idle") ~> (pc = "idle")

(* a call went round its loop for more bytes and then completed, with a    *)
(* rest to store                                                           *)
C19_Witness ==
    /\ Returned("recv_to_separator")
    /\ nreads >= 2
    /\ Len(backlog_bytes) >= 1
    /\ lastRead = "chunk"

----------------------------------------------------------------------------
(* Properties of DeadlineQueue (SpecQueue, SpecQueueFair)                  *)

(* thread t's get() returns in this step *)
GetReturns(t) == element'[t] # element[t] /\ element'[t] # NoElement

(* the list without its i-th tuple *)
Without(heap, i) == SubSeq(heap, 1, i - 1) \o SubSeq(heap, i + 1, Len(heap))

(* C17: the idx of a queued element is the number of puts before its own,  *)
(* so no two elements share one; and a get() removes and returns the       *)
(* element whose deadline is lowest, the one put first among those.        *)
C17_QueueOrdering ==
    /\ [](\A i \in 1..Len(dq_queue) :
             /\ dq_queue[i][2] < Len(puts)
             /\ puts[dq_queue[i][2] + 1] = <<dq_queue[i][1], dq_queue[i][3]>>)
    /\ [](\A i, j \in 1..Len(dq_queue) : i # j => dq_queue[i][2] # dq_queue[j][2])
    /\ [][\A t \in Consumers :
             GetReturns(t)
                 => \E i \in 1..Len(dq_queue) :
                       /\ element'[t] = dq_queue[i]
                       /\ dq_queue' = Without(dq_queue, i)
                       /\ \A j \in 1..Len(dq_queue) :
                             j # i => \/ dq_queue[i][1] < dq_queue[j][1]
                                      \/ /\ dq_queue[i][1] = dq_queue[j][1]
                                         /\ dq_queue[i][2] < dq_queue[j][2]]_vars

(* get() returned the element put last, ahead of two that were put before  *)
(* it with a later deadline                                                *)
C17_Witness ==
    \E t \in Consumers :
        /\ element[t] # NoElement
        /\ element[t][2] = 2
        /\ Len(dq_queue) = 2
        /\ \A i \in 1..Len(dq_queue) :
              /\ dq_queue[i][2] < element[t][2]
              /\ dq_queue[i][1] > element[t][1]

(* C18: a get() returns only an element it took from a queue that was not  *)
(* empty; a thread inside wait() has found the queue empty and, being the  *)
(* only consumer, the queue is empty as long as it has not been notified;  *)
(* and a get() that a put() has notified does return.                      *)
C18_GetWaits ==
    /\ [](\A t \in Consumers :
             get_pc[t] = "waiting" => Len(dq_queue) = 0)
    /\ [](\A t \in Consumers :
             get_pc[t] = "notified" => Len(dq_queue) > 0)
    /\ [][\A t \in Consumers :
             GetReturns(t) => (Len(dq_queue) > 0 /\ element'[t] = Head(dq_queue))]_vars
    /\ \A t \in Consumers :
          (get_pc[t] # "idle") ~> (get_pc[t] = "idle" \/ Len(dq_queue) = 0)
    /\ \A t \in Consumers :
          (get_pc[t] = "notified") ~> (get_pc[t] = "idle" /\ element[t] # NoElement)

(* a get() that had to wait for a put() has returned the element put *)
C18_Witness ==
    \E t \in Consumers :
        /\ get_pc[t] = "idle"
        /\ waited[t]
        /\ element[t] # NoElement
        /\ Len(dq_queue) = 0

----------------------------------------------------------------------------
(* C21 as stated: recv_to_separator has no timeout-drop path, so no call   *)
(* of it ends in a timeout of its socket read with bytes it had            *)
(* accumulated discarded.                                                  *)
C21_NoTimeoutDrop_AsStated ==
    Raised("recv_to_separator", "Timeout")
        => \/ msg_bytes = <<>>
           \/ BytesOf(backlog_bytes) = msg_bytes

(* C21 amended: a recv_to_separator whose socket read times out (the       *)
(* socket carries the timeout of the last recv) raises Timeout and drops   *)
(* all it had accumulated, the backlog it took included: none of these     *)
(* bytes is in the backlog, and the search position is not kept either.    *)
C21_RtsTimeoutDrops ==
    Raised("recv_to_separator", "Timeout")
        => /\ sockTimeout = "seconds"
           /\ lastRead = "timeout"
           /\ result = None
           /\ msg_bytes = CallBytes
           /\ ~Occurs(separator, msg_bytes)
           /\ BacklogLen(backlog_bytes) = 0
           /\ lostEnd = Len(rx)

(* recv_to_separator timed out after it took a backlog and read a chunk,   *)
(* and these bytes are gone                                                *)
C21_Witness ==
    /\ Raised("recv_to_separator", "Timeout")
    /\ startBacklog # None
    /\ Len(startBacklog) >= 1
    /\ nreads >= 1
    /\ Len(msg_bytes) > Len(startBacklog)
    /\ BacklogLen(backlog_bytes) = 0

----------------------------------------------------------------------------
(* the search over everything: the lowest index at which sub occurs in s,  *)
(* -1 when it occurs nowhere                                               *)
FullSearch(s, sub) ==
    IF Occurs(sub, s)
    THEN CHOOSE i \in 0..(Len(s) - Len(sub)) :
             /\ SubSeq(s, i + 1, i + Len(sub)) = sub
             /\ \A j \in 0..(i - 1) : SubSeq(s, j + 1, j + Len(sub)) # sub
    ELSE -1

----------------------------------------------------------------------------
(* utilities.py: round_down and round_up.  Python integers have no width:  *)
(* ~x is -x - 1, and a & b with b negative keeps of a the bits that the    *)
(* non-negative ~b does not have.                                          *)

(* a & b for a, b >= 0 *)
RECURSIVE BitAnd(_, _)
BitAnd(a, b) ==
    IF a = 0 \/ b = 0 THEN 0
    ELSE (a % 2) * (b % 2) + 2 * BitAnd(a \div 2, b \div 2)

(* ~x *)
Invert(x) == -x - 1

(* a & b for a >= 0 and any b *)
And(a, b) == IF b >= 0 THEN BitAnd(a, b) ELSE a - BitAnd(a, Invert(b))

(* n & ~(m - 1) *)
RoundDown(n, m) == And(n, Invert(m - 1))

(* (n + m - 1) & ~(m - 1) *)
RoundUp(n, m) == And(n + m - 1, Invert(m - 1))

(* the frame of a call of a function of utilities.py *)
UtilOnly == UNCHANGED <<instVars, recvVars, recvHist, netVars, sendVars, callerVars,
                        queueVars, demoVars, threadVars, legacy>>

(* round_down(n, m) is called *)
round_down(n, m) ==
    /\ u_call' = "round_down"
    /\ u_args' = <<n, m>>
    /\ u_ret' = RoundDown(n, m)
    /\ UNCHANGED files

(* round_up(n, m) is called *)
round_up(n, m) ==
    /\ u_call' = "round_up"
    /\ u_args' = <<n, m>>
    /\ u_ret' = RoundUp(n, m)
    /\ UNCHANGED files

InitRound ==
    /\ InitInstance
    /\ InitSender
    /\ InitQueueInstance
    /\ InitOther
    /\ InitNoCaller
    /\ sockTimeout = "None"
    /\ wire = <<>>
    /\ peerOpen = FALSE

NextRound ==
    \/ \E n \in 0..MaxN, m \in 1..MaxM : round_down(n, m) /\ UtilOnly
    \/ \E n \in 0..MaxN, m \in 1..MaxM : round_up(n, m) /\ UtilOnly

SpecRound == InitRound /\ [][NextRound]_vars

----------------------------------------------------------------------------
(* Properties of round_down and round_up (SpecRound)                       *)

(* C25: for every n >= 0 and m >= 1, round_down(n, m) is the largest       *)
(* multiple of m that is at most n, and round_up(n, m) is the smallest     *)
(* multiple of m that is at least n.                                       *)
C25_RoundsToMultiple ==
    /\ u_call = "round_down"
           => /\ u_ret % u_args[2] = 0
              /\ u_ret <= u_args[1]
              /\ u_args[1] < u_ret + u_args[2]
    /\ u_call = "round_up"
           => /\ u_ret % u_args[2] = 0
              /\ u_ret >= u_args[1]
              /\ u_ret < u_args[1] + u_args[2]

(* round_down(7, 3) returned 5, which is no multiple of 3 *)
C25_Witness ==
    /\ u_call = "round_down"
    /\ u_args = <<7, 3>>
    /\ u_ret = 5

----------------------------------------------------------------------------
(* utilities.py: string_from_format.  A string is a sequence of            *)
(* characters; "%P" is the two characters "%" and "P".                     *)

FmtChars == {"%", "P", "x"}
Strings == UNION {[1..n -> FmtChars] : n \in 0..MaxFmtLen}

(* Path(sys.argv[0]).stem: the name of the application *)
ApplicationName == <<"a", "p", "p">>

(* s[a:b] *)
Slice(s, a, b) == SubSeq(s, SliceIndex(a, Len(s)) + 1, SliceIndex(b, Len(s)))

(* now.strftime(fmt2): a directive, "%" and the character after it, is     *)
(* replaced by what it stands for, "%%" by "%"; all else is copied         *)
RECURSIVE strftime(_)
strftime(f) ==
    IF f = <<>> THEN <<>>
    ELSE IF Head(f) = "%" /\ Len(f) >= 2
         THEN <<IF f[2] = "%" THEN "%" ELSE <<"strftime", f[2]>>>>
                  \o strftime(SubSeq(f, 3, Len(f)))
         ELSE <<Head(f)>> \o strftime(Tail(f))

(* the while loop of string_from_format and the statement after it *)
RECURSIVE FormatLoop(_, _, _, _)
FormatLoop(fmt, fmt2, start, pos) ==
    IF pos >= 0
    THEN LET len == pos - start
         IN  FormatLoop(fmt,
                        fmt2 \o Slice(fmt, start, len) \o ApplicationName,
                        pos + 2,
                        Find(fmt, <<"%", "P">>, pos + 2))
    ELSE fmt2 \o SliceFrom(fmt, start)

(* the value string_from_format(fmt) returns *)
StringFromFormat(fmt) ==
    strftime(IF Find(fmt, <<"%", "P">>, 0) >= 0
             THEN FormatLoop(fmt, <<>>, 0, Find(fmt, <<"%", "P">>, 0))
             ELSE fmt)

(* string_from_format(fmt) is called *)
string_from_format(fmt) ==
    /\ u_call' = "string_from_format"
    /\ u_args' = <<fmt>>
    /\ u_ret' = StringFromFormat(fmt)
    /\ UNCHANGED files

NextFormat ==
    \E fmt \in Strings : string_from_format(fmt) /\ UtilOnly

SpecFormat == InitRound /\ [][NextFormat]_vars

----------------------------------------------------------------------------
(* Properties of string_from_format (SpecFormat)                           *)

(* the format has no directive but %P: every "%" is followed by a "P" *)
OnlyP(fmt) ==
    \A i \in 1..Len(fmt) : fmt[i] = "%" => i < Len(fmt) /\ fmt[i + 1] = "P"

(* fmt with every %P, from left to right, replaced by the application name *)
RECURSIVE Substituted(_)
Substituted(f) ==
    IF f = <<>> THEN <<>>
    ELSE IF Len(f) >= 2 /\ f[1] = "%" /\ f[2] = "P"
         THEN ApplicationName \o Substituted(SubSeq(f, 3, Len(f)))
         ELSE <<Head(f)>> \o Substituted(Tail(f))

(* C26: for a format with no directive other than %P, string_from_format   *)
(* returns the format with every %P replaced by the application name and   *)
(* every other character kept, in order.                                   *)
C26_EveryPReplaced ==
    u_call = "string_from_format" /\ OnlyP(u_args[1])
        => u_ret = Substituted(u_args[1])

(* string_from_format('%Px%P') returned the application name twice and     *)
(* lost the x between                                                      *)
C26_Witness ==
    /\ u_call = "string_from_format"
    /\ u_args[1] = <<"%", "P", "x", "%", "P">>
    /\ u_ret = ApplicationName \o ApplicationName

----------------------------------------------------------------------------
(* utilities.py: rotate_file, in the log directory that logging_initialize *)
(* hands to it.  fn_logger.trace is taken to exist, as it does once        *)
(* logging_add_trace() has run.  The call touches no state but the files,  *)
(* so all of its loop is one step.                                         *)

(* compress_level: None of the levels matters but for being > 0 *)
DefaultCompressLevel == 9
CompressLevels == {0, DefaultCompressLevel}

(* what gzip makes of the bytes of a file *)
Gzip(content) == <<content[1], "gzip">>

(* Path.unlink(), Path.rename(target) and writing a file opened with 'wb' *)
Unlink(dir, name) == [dir EXCEPT ![name] = NoFile]
Rename(dir, name, target) == [dir EXCEPT ![target] = dir[name], ![name] = NoFile]
WriteFile(dir, name, content) == [dir EXCEPT ![name] = content]

(* RotateFound that renames the oldest copy like any other *)
RotateFound_KeepsOldest(dir, candidate, candidate_is_compressed, rotation, max_rotation, compress_level) ==
    IF rotation = 0
    THEN IF compress_level > 0
         THEN Unlink(WriteFile(dir, RotatedGz(1), Gzip(dir[Current])), Current)
         ELSE Rename(dir, candidate, Rotated(rotation + 1))
    ELSE IF candidate_is_compressed
         THEN Rename(dir, candidate, RotatedGz(rotation + 1))
         ELSE Rename(dir, candidate, Rotated(rotation + 1))

(* "We have found a match": what is done to the candidate of one rotation *)
RotateFound(dir, candidate, candidate_is_compressed, rotation, max_rotation, compress_level) ==
    IF rotation = 0
    THEN IF compress_level > 0
         THEN Unlink(WriteFile(dir, RotatedGz(1), Gzip(dir[Current])), Current)
         ELSE Rename(dir, candidate, Rotated(rotation + 1))
    ELSE IF rotation = max_rotation
         THEN Unlink(dir, candidate)
         ELSE IF candidate_is_compressed
              THEN Rename(dir, candidate, RotatedGz(rotation + 1))
              ELSE Rename(dir, candidate, Rotated(rotation + 1))

(* while rotation >= 0: find the candidate, plain before .gz, and treat it *)
RECURSIVE RotateLoop(_, _, _, _)
RotateLoop(dir, rotation, max_rotation, compress_level) ==
    IF rotation < 0 THEN dir
    ELSE IF rotation = 0
    THEN IF dir[Current] = NoFile
         THEN dir
         ELSE RotateLoop(RotateFound(dir, Current, FALSE, rotation,
                                     max_rotation, compress_level),
                         rotation - 1, max_rotation, compress_level)
    ELSE IF dir[Rotated(rotation)] # NoFile
    THEN RotateLoop(RotateFound(dir, Rotated(rotation), FALSE, rotation,
                                max_rotation, compress_level),
                    rotation - 1, max_rotation, compress_level)
    ELSE IF dir[RotatedGz(rotation)] # NoFile
    THEN RotateLoop(RotateFound(dir, RotatedGz(rotation), TRUE, rotation,
                                max_rotation, compress_level),
                    rotation - 1, max_rotation, compress_level)
    ELSE RotateLoop(dir, rotation - 1, max_rotation, compress_level)

(* rotate_file(file_name, file_dir, rotation, compress_level) is called *)
rotate_file(rotation, compress_level) ==
    /\ u_call' = "rotate_file"
    /\ u_args' = <<files, rotation, compress_level>>
    /\ u_ret' = None
    /\ files' = IF rotation = 0
                THEN files
                ELSE RotateLoop(files, rotation, rotation, compress_level)

(* the names that hold a file, and what was logged into the files *)
Present(dir) == {name \in FileNames : dir[name] # NoFile}
LogsIn(dir) == {dir[name][1] : name \in Present(dir)}

(* logging.FileHandler(log_file_path, mode='w'), after rotate_file: the    *)
(* current log file is made, or made anew, and what is logged from now on  *)
(* has not been logged before                                              *)
FileHandler ==
    /\ LET fresh == IF Present(files) = {} THEN 1
                    ELSE 1 + CHOOSE c \in LogsIn(files) :
                                 \A d \in LogsIn(files) : d <= c
       IN  /\ fresh <= MaxFiles
           /\ files' = WriteFile(files, Current, <<fresh, "raw">>)
    /\ u_call' = "FileHandler"
    /\ u_args' = <<>>
    /\ u_ret' = None

NextRotate ==
    \/ \E rotation \in 0..MaxRotation, compress_level \in CompressLevels :
           rotate_file(rotation, compress_level) /\ UtilOnly
    \/ FileHandler /\ UtilOnly

SpecRotate == InitRound /\ [][NextRotate]_vars

----------------------------------------------------------------------------
(* Properties of rotate_file (SpecRotate)                                  *)

(* the arguments of the last call of rotate_file *)
DirBefore == u_args[1]
RotationArg == u_args[2]
CompressArg == u_args[3]

(* the rotated copies of a directory *)
Copies(dir) == {name \in Present(dir) : name[1] >= 1}

----------------------------------------------------------------------------
(* Properties of DeadlineQueue used by several threads (SpecThreads,       *)
(* SpecThreadsFair)                                                        *)

(* C28: no wake-up is lost: a thread blocked in get() or peek() does not   *)
(* stay blocked for ever while the queue is not empty.                     *)
C28_NoLostWakeup ==
    \A t \in Threads :
        (get_pc[t] # "idle") ~> (get_pc[t] = "idle" \/ Len(dq_queue) = 0)

(* two threads waited in peek(); the one put() woke one of them, which has *)
(* returned; the other is still inside wait(), with an element in the      *)
(* queue and nobody left to notify it                                      *)
C28_Witness ==
    \E t, u \in Threads :
        /\ t # u
        /\ get_pc[t] = "waiting"
        /\ dq_call[t] = "peek"
        /\ cv_waiters = <<t>>
        /\ Len(dq_queue) = 1
        /\ Len(puts) = 1
        /\ get_pc[u] = "idle"
        /\ dq_call[u] = "peek"
        /\ waited[u]
        /\ element[u] = dq_queue[1]

(* the elements in the queue and those get() has returned *)
AllElements == dq_queue \o gotten

(* C29: the calls of several threads take effect one at a time: every      *)
(* element put is in the queue or was returned by exactly one get(), with  *)
(* the idx of its put, so the idx values are pairwise distinct; a peek()   *)
(* returns an element and removes none; qsize() returns the number of      *)
(* puts completed minus the number of gets completed.                      *)
C29_Linearizable ==
    /\ Len(AllElements) = Len(puts)
    /\ Len(dq_queue) = Len(puts) - Len(gotten)
    /\ \A n \in 1..Len(puts) :
          \E i \in 1..Len(AllElements) :
              /\ AllElements[i] = <<puts[n][1], n - 1, puts[n][2]>>
              /\ \A j \in 1..Len(AllElements) :
                    AllElements[j][2] = n - 1 => j = i
    /\ \A i, j \in 1..Len(AllElements) :
          i # j => AllElements[i][2] # AllElements[j][2]
    /\ \A t \in Threads :
          get_pc[t] = "idle" /\ dq_call[t] = "get"
              => \E i \in 1..Len(gotten) : gotten[i] = element[t]
    /\ \A t \in Threads :
          get_pc[t] = "idle" /\ dq_call[t] = "peek"
              => \E i \in 1..Len(AllElements) : AllElements[i] = element[t]
    /\ qsize_ret # NoSize
          => /\ qsize_ret[1] = qsize_ret[2] - qsize_ret[3]
             /\ qsize_ret[2] <= Len(puts)
             /\ qsize_ret[3] <= Len(gotten)

(* two threads have each got one element of three put, a peek() of one of  *)
(* them has returned the third and left it in the queue, and a qsize()     *)
(* in between returned 2                                                   *)
C29_Witness ==
    \E t, u \in Threads :
        /\ t # u
        /\ Len(puts) = 3
        /\ Len(gotten) = 2
        /\ Len(dq_queue) = 1
        /\ get_pc[t] = "idle" /\ dq_call[t] = "peek" /\ element[t] = dq_queue[1]
        /\ get_pc[u] = "idle" /\ dq_call[u] = "get" /\ element[u] = gotten[2]
        /\ qsize_ret = <<2, 3, 1>>

----------------------------------------------------------------------------
(* The demo of deadlinequeue.py: a producer and a consumer thread on one   *)
(* queue, and demo() waiting for both at end_barrier.  Times are in        *)
(* milliseconds; time 0 is the moment the producer, released by            *)
(* start_barrier together with the consumer, reads time.perf_counter().    *)

(* event_times, 0.010 s and the timeout of end_barrier.wait in demo() *)
EventTimes == <<0, 500, 200, 100, 0, 10, 20, 0, 99>>
StartOffset == 10
DemoTimeout == 5000
(* sys.float_info.max, about 1.8e308 s: later than any time that           *)
(* perf_counter() returns while the demo runs                              *)
FloatMax == 2 * DemoTimeout
(* _sentinel = object() *)
Sentinel == "_sentinel"

(* the (deadline, data) of the puts of the producer, in order *)
ProducerPuts ==
    [i \in 1..Len(EventTimes) |->
        <<IF EventTimes[i] # 0 THEN StartOffset + EventTimes[i] ELSE 0,
          <<"Some value", i - 1>>>>]
      \o <<<<0, "abc">>, <<FloatMax, Sentinel>>>>

(* the times at which a comparison of the demo can change its outcome *)
Instants == {0, DemoTimeout} \cup {ProducerPuts[i][1] : i \in 1..(Len(ProducerPuts) - 1)}

(* the frame of a step of the demo *)
DemoOnly == UNCHANGED <<instVars, recvVars, recvHist, netVars, sendVars, callerVars,
                        utilVars, threadVars, legacy>>

(* time passes, up to the next instant *)
Tick ==
    /\ now < DemoTimeout
    /\ now' = CHOOSE i \in Instants : i > now /\ \A j \in Instants : j > now => i <= j
    /\ UNCHANGED <<terminate_event, end_barrier, demo_pc, produced, queueVars>>

(* thread th calls end_barrier.wait(): on a broken barrier it raises       *)
(* BrokenBarrierError, which the thread prints                             *)
EndBarrierWait(th) ==
    /\ demo_pc[th] = "end_barrier"
    /\ IF end_barrier.broken
       THEN /\ demo_pc' = [demo_pc EXCEPT ![th] = "done"]
            /\ UNCHANGED end_barrier
       ELSE /\ demo_pc' = [demo_pc EXCEPT ![th] = "in_wait"]
            /\ end_barrier' = [end_barrier EXCEPT !.waiting = @ \cup {th}]
    /\ UNCHANGED <<now, terminate_event, produced, queueVars>>

(* thread th leaves end_barrier.wait(): all three threads are there, or    *)
(* the barrier was broken                                                  *)
EndBarrierLeave(th) ==
    /\ demo_pc[th] = "in_wait"
    /\ end_barrier.broken \/ end_barrier.waiting = DemoThreads
    /\ demo_pc' = [demo_pc EXCEPT ![th] = "done"]
    /\ UNCHANGED <<now, terminate_event, end_barrier, produced, queueVars>>

(* demo(): end_barrier.wait(timeout=5) times out, which breaks the         *)
(* barrier, and terminate_event is set                                     *)
DemoTimesOut ==
    /\ demo_pc["demo"] = "in_wait"
    /\ now >= DemoTimeout
    /\ end_barrier.waiting # DemoThreads
    /\ end_barrier' = [end_barrier EXCEPT !.broken = TRUE]
    /\ terminate_event' = TRUE
    /\ demo_pc' = [demo_pc EXCEPT !["demo"] = "done"]
    /\ UNCHANGED <<now, produced, queueVars>>

(* producer: the next dq_out.put, and after the last one the end barrier *)
ProducerPut ==
    /\ demo_pc["producer"] = "put"
    /\ put(ProducerPuts[produced + 1][1], ProducerPuts[produced + 1][2])
    /\ produced' = produced + 1
    /\ demo_pc' = [demo_pc EXCEPT !["producer"] =
                      IF produced' = Len(ProducerPuts) THEN "end_barrier" ELSE "put"]
    /\ UNCHANGED <<now, terminate_event, end_barrier>>

(* consumer: dq_in.peek(), which may have to wait *)
ConsumerPeek ==
    /\ demo_pc["consumer"] = "peek"
    /\ \/ peek("consumer")
       \/ PeekWake("consumer")
    /\ demo_pc' = [demo_pc EXCEPT !["consumer"] =
                      IF get_pc'["consumer"] = "idle" THEN "check" ELSE "peek"]
    /\ UNCHANGED <<now, terminate_event, end_barrier, produced>>

(* consumer: current_s = time.perf_counter(); if deadline > current_s: ... *)
ConsumerCheck ==
    /\ demo_pc["consumer"] = "check"
    /\ demo_pc' = [demo_pc EXCEPT !["consumer"] =
                      IF element["consumer"][1] > now
                      THEN IF terminate_event THEN "end_barrier" ELSE "peek"
                      ELSE "get"]
    /\ UNCHANGED <<now, terminate_event, end_barrier, produced, queueVars>>

(* consumer: dq_in.get(); if data is _sentinel: break *)
ConsumerGet ==
    /\ demo_pc["consumer"] = "get"
    /\ \/ get("consumer")
       \/ GetWake("consumer")
    /\ demo_pc' = [demo_pc EXCEPT !["consumer"] =
                      IF get_pc'["consumer"] # "idle" THEN "get"
                      ELSE IF element'["consumer"][3] = Sentinel THEN "end_barrier"
                      ELSE "peek"]
    /\ UNCHANGED <<now, terminate_event, end_barrier, produced>>

(* demo() has started both threads, which have passed start_barrier *)
InitQueueDemo ==
    /\ InitInstance
    /\ InitSender
    /\ InitQueueInstance
    /\ InitNoCaller
    /\ InitNoUtil
    /\ InitOneThread
    /\ InitLegacy
    /\ sockTimeout = "None"
    /\ wire = <<>>
    /\ peerOpen = FALSE
    /\ now = 0
    /\ terminate_event = FALSE
    /\ end_barrier = [waiting |-> {}, broken |-> FALSE]
    /\ demo_pc = [th \in DemoThreads |->
                     CASE th = "producer" -> "put"
                       [] th = "consumer" -> "peek"
                       [] th = "demo" -> "end_barrier"]
    /\ produced = 0

NextQueueDemo ==
    \/ Tick /\ DemoOnly
    \/ ProducerPut /\ DemoOnly
    \/ ConsumerPeek /\ DemoOnly
    \/ ConsumerCheck /\ DemoOnly
    \/ ConsumerGet /\ DemoOnly
    \/ \E th \in DemoThreads : EndBarrierWait(th) /\ DemoOnly
    \/ \E th \in DemoThreads : EndBarrierLeave(th) /\ DemoOnly
    \/ DemoTimesOut /\ DemoOnly

(* Every thread of the demo gets to run, and time passes. *)
SpecQueueDemo ==
    /\ InitQueueDemo
    /\ [][NextQueueDemo]_vars
    /\ WF_vars(Tick /\ DemoOnly)
    /\ WF_vars(ProducerPut /\ DemoOnly)
    /\ WF_vars(ConsumerPeek /\ DemoOnly)
    /\ WF_vars(ConsumerCheck /\ DemoOnly)
    /\ WF_vars(ConsumerGet /\ DemoOnly)
    /\ \A th \in DemoThreads : WF_vars(EndBarrierWait(th) /\ DemoOnly)
    /\ \A th \in DemoThreads : WF_vars(EndBarrierLeave(th) /\ DemoOnly)
    /\ WF_vars(DemoTimesOut /\ DemoOnly)

----------------------------------------------------------------------------
(* Properties of the demo of deadlinequeue.py (SpecQueueDemo)              *)

(* the consumer has got every element but the sentinel *)
AllEarlierConsumed ==
    /\ Len(gotten) = Len(ProducerPuts) - 1
    /\ \A i \in 1..Len(gotten) : gotten[i][3] # Sentinel

(* the consumer has left its loop on the sentinel *)
LeftOnSentinel ==
    /\ demo_pc["consumer"] \in {"end_barrier", "in_wait", "done"}
    /\ element["consumer"] # NoElement
    /\ element["consumer"][3] = Sentinel
    /\ dq_call["consumer"] = "get"

(* C24: once the consumer has consumed all items put before the sentinel,  *)
(* it eventually gets the sentinel and leaves its loop, with no need of    *)
(* the terminate event.                                                    *)
C24_SentinelEndsConsumer ==
    AllEarlierConsumed ~> LeftOnSentinel

(* the consumer has left its loop on the terminate event, set after the    *)
(* 5 seconds of demo(): it has got all ten items, and the sentinel is      *)
(* still in the queue                                                      *)
C24_Witness ==
    /\ demo_pc["consumer"] = "done"
    /\ terminate_event
    /\ end_barrier.broken
    /\ AllEarlierConsumed
    /\ Len(dq_queue) = 1
    /\ dq_queue[1][3] = Sentinel
    /\ element["consumer"] = dq_queue[1]
    /\ dq_call["consumer"] = "peek"

----------------------------------------------------------------------------
(* Two threads on one ChunkyStreamSocket.  The instance has no lock.  A    *)
(* thread inside self.sock.recv has released the interpreter, so the other *)
(* thread can run from there: the steps of the two threads interleave at   *)
(* the socket reads.  The variables of recvVars are the locals of the      *)
(* thread that runs; those of the other thread are parked.                 *)

(* the other thread runs from here on *)
Switch ==
    /\ parked' = recvVars
    /\ pc' = parked[1]
    /\ op' = parked[2]
    /\ length' = parked[3]
    /\ timeout' = parked[4]
    /\ separator' = parked[5]
    /\ msg_bytes' = parked[6]
    /\ start_search_index' = parked[7]
    /\ outcome' = parked[8]
    /\ result' = parked[9]
    /\ UNCHANGED <<instVars, recvHist, netVars, overlapped>>

(* the pc of the thread that does not run *)
ParkedPc == parked[1]
(* msg_bytes of the thread that does not run *)
ParkedBytes == parked[6]
(* the outcome of the last call of the thread that does not run *)
ParkedOutcome == parked[8]

(* the frame of a step of the thread that runs *)
SharedOnly ==
    /\ UNCHANGED <<sendVars, callerVars, queueVars, utilVars, demoVars, parked, legacy>>
    /\ overlapped' = (overlapped \/ (pc' # "idle" /\ ParkedPc # "idle"))

InitShared ==
    /\ InitInstance
    /\ InitSender
    /\ InitQueueInstance
    /\ InitNoCaller
    /\ InitOther
    /\ sockTimeout = "None"
    /\ wire \in BSeq(0, MaxSharedWire)
    /\ peerOpen = FALSE

NextShared ==
    \/ \E len \in 1..MaxSharedLength : recv(len, "None") /\ SharedOnly
    \/ \E k \in 1..MaxSharedWire : RecvChunk(k) /\ SharedOnly
    \/ RecvEmpty /\ SharedOnly
    \/ \E sep \in BSeq(1, MaxSharedSepLen) : recv_to_separator(sep) /\ SharedOnly
    \/ \E k \in 1..MaxSharedWire : RtsChunk(k) /\ SharedOnly
    \/ RtsEmpty /\ SharedOnly
    \/ Switch /\ UNCHANGED <<sendVars, callerVars, queueVars, utilVars, demoVars, legacy>>

SpecShared == InitShared /\ [][NextShared]_vars

----------------------------------------------------------------------------
(* Properties of an instance used by two threads (SpecShared)              *)

(* the bytes read from the socket since a call last raised *)
Unlost == SubSeq(rx, lostEnd + 1, Len(rx))

(* C23: the order of the bytes is kept when the calls of the two threads   *)
(* are strictly one after the other: as long as no two calls were in       *)
(* progress at a time, the messages returned, then what the call in        *)
(* progress has accumulated or else the backlog, are the bytes read from   *)
(* the socket, in order.  (With calls that overlap this fails: the         *)
(* witness.)                                                               *)
C23_SequentialOrder ==
    ~overlapped
        => /\ ~(pc # "idle" /\ ParkedPc # "idle")
           /\ pc = "idle" /\ ParkedPc = "idle"
                  => delivered \o BytesOf(backlog_bytes) = Unlost
           /\ pc # "idle"
                  => delivered \o msg_bytes = Unlost
           /\ ParkedPc # "idle"
                  => delivered \o ParkedBytes = Unlost

(* two calls overlapped, both have returned and no call has ever raised,   *)
(* yet the bytes returned and the backlog are not the bytes read from the  *)
(* socket in their order                                                   *)
C23_Witness ==
    /\ overlapped
    /\ pc = "idle" /\ outcome = "ok"
    /\ ParkedPc = "idle" /\ ParkedOutcome = "ok"
    /\ lostEnd = 0
    /\ lastRead = "chunk"
    /\ delivered \o BytesOf(backlog_bytes) # rx

----------------------------------------------------------------------------
(* ChunkyStreamSocket.py, the older copy of the class.  Its instance       *)
(* `legacy` is called like the instance of chunkystreamsocket.py and its   *)
(* socket gives the same results.  debug is an attribute, False by         *)
(* default.                                                                *)

(* a call of recv or recv_to_separator raises *)
LegacyRaise(L, exc) == [L EXCEPT !.pc = "idle", !.outcome = exc, !.result = None]

(* recv: the loop test with `acc` accumulated; when it fails, join and split *)
legacy_RecvLoop(L, acc, len) ==
    IF Len(acc) < len
    THEN [L EXCEPT !.pc = "recv", !.msg_bytes = acc, !.outcome = "pending",
                   !.result = None]
    ELSE [L EXCEPT !.pc = "idle",
                   !.backlog_bytes = IF Len(acc) > len THEN SliceFrom(acc, len) ELSE @,
                   !.msg_bytes = IF Len(acc) > len THEN SliceTo(acc, len) ELSE acc,
                   !.outcome = "ok",
                   !.result = IF Len(acc) > len THEN SliceTo(acc, len) ELSE acc]

(* recv(length, timeout) up to its first socket read *)
legacy_recv(L, len) ==
    IF L.backlog_bytes # None
    THEN legacy_RecvLoop([L EXCEPT !.backlog_bytes = None], L.backlog_bytes, len)
    ELSE legacy_RecvLoop(L, <<>>, len)

(* recv: self.socket.recv returned, with bytes or with b''; the next line  *)
(* calls self.debug, a bool                                                *)
legacy_RecvRead(L) == LegacyRaise(L, "TypeError")

(* recv_to_separator: one pass of the loop body after `chunk` was obtained *)
legacy_RtsLoop(L, acc, chunk, sep, ssi) ==
    LET msg == acc \o chunk
        start_separator_index == Find(msg, sep, ssi)
    IN  IF start_separator_index > -1
        THEN [L EXCEPT !.pc = "idle",
                       !.backlog_bytes = SliceFrom(msg, start_separator_index + Len(sep)),
                       !.msg_bytes = SliceTo(msg, start_separator_index),
                       !.start_search_index = ssi,
                       !.outcome = "ok",
                       !.result = SliceTo(msg, start_separator_index)]
        ELSE [L EXCEPT !.pc = "rts",
                       !.msg_bytes = msg,
                       !.start_search_index = Max(0, Len(msg) - (Len(sep) - 1)),
                       !.outcome = "pending",
                       !.result = None]

(* recv_to_separator(separator) up to its first socket read *)
legacy_recv_to_separator(L, sep) ==
    IF L.backlog_bytes # None /\ Len(L.backlog_bytes) > 0
    THEN legacy_RtsLoop([L EXCEPT !.backlog_bytes = None], <<>>, L.backlog_bytes, sep, 0)
    ELSE [L EXCEPT !.pc = "rts", !.msg_bytes = <<>>, !.start_search_index = 0,
                   !.outcome = "pending", !.result = None]

(* send: the loop test with `total` bytes sent; when it fails, return total *)
legacy_SendLoop(L, m, total) ==
    IF total < Len(m)
    THEN [L EXCEPT !.s_pc = "send", !.total_nr_sent = total,
                   !.s_outcome = "pending", !.s_result = NoCount]
    ELSE [L EXCEPT !.s_pc = "idle", !.total_nr_sent = total,
                   !.s_outcome = "ok", !.s_result = total]

(* send raises: a write returned 0, or the socket timed out *)
LegacySendRaise(L, exc) ==
    [L EXCEPT !.s_pc = "idle", !.s_outcome = exc, !.s_result = NoCount]

(* the legacy instance, in call `at`, goes on to L2; outside it stays *)
LegacyRx(at, L2) ==
    /\ legacy' = IF legacy.pc = at THEN L2 ELSE legacy
    /\ UNCHANGED <<sendVars, callerVars, queueVars, utilVars, demoVars, threadVars>>
LegacyTx(L2) ==
    /\ legacy' = L2
    /\ UNCHANGED <<instVars, recvVars, recvHist, netVars, callerVars, queueVars,
                   utilVars, demoVars, threadVars>>

(* a call is made on both instances, left with the same backlog by the     *)
(* calls before, by the one thread that uses them                          *)
SameStart ==
    /\ legacy.backlog_bytes = backlog_bytes
    /\ legacy.pc = "idle" /\ pc = "idle"
    /\ legacy.s_pc = "idle" /\ s_pc = "idle"

InitCopies ==
    /\ InitInstance
    /\ InitSender
    /\ InitQueueInstance
    /\ InitNoCaller
    /\ InitOther
    /\ sockTimeout = "None"
    /\ wire \in BSeq(0, MaxLegacyWire)
    /\ peerOpen = FALSE

NextCopies ==
    \/ \E len \in 0..MaxLegacyLength, t \in TimeoutValues :
           SameStart /\ recv(len, t) /\ LegacyRx("idle", legacy_recv(legacy, len))
    \/ \E k \in 1..MaxLegacyWire :
           RecvChunk(k) /\ LegacyRx("recv", legacy_RecvRead(legacy))
    \/ RecvEmpty /\ LegacyRx("recv", legacy_RecvRead(legacy))
    \/ RecvTimeout /\ LegacyRx("recv", LegacyRaise(legacy, "Timeout"))
    \/ \E sep \in BSeq(1, MaxLegacySepLen) :
           SameStart /\ recv_to_separator(sep)
                     /\ LegacyRx("idle", legacy_recv_to_separator(legacy, sep))
    \/ \E k \in 1..MaxLegacyWire :
           RtsChunk(k)
               /\ LegacyRx("rts", legacy_RtsLoop(legacy, legacy.msg_bytes,
                                                 SubSeq(wire, 1, k), separator,
                                                 legacy.start_search_index))
    \/ RtsEmpty /\ LegacyRx("rts", LegacyRaise(legacy, "ConnectionBroken"))
    \/ RtsTimeout /\ LegacyRx("rts", LegacyRaise(legacy, "Timeout"))
    \/ \E m \in BSeq(0, MaxLegacySend) :
           SameStart /\ send(m) /\ LegacyTx(legacy_SendLoop(legacy, m, 0))
    \/ \E k \in 1..MaxLegacySend :
           SendWrite(k)
               /\ LegacyTx(legacy_SendLoop(legacy, s_msg, legacy.total_nr_sent + k))
    \/ SendZero /\ LegacyTx(LegacySendRaise(legacy, "ConnectionBroken"))
    \/ SendTimeout /\ LegacyTx(LegacySendRaise(legacy, "Timeout"))

SpecCopies == InitCopies /\ [][NextCopies]_vars

----------------------------------------------------------------------------
(* Properties of the two copies of the class (SpecCopies)                  *)

(* C30: given the same calls from the same backlog and the same results of *)
(* the socket, send, recv and recv_to_separator of ChunkyStreamSocket.py   *)
(* end like those of chunkystreamsocket.py: same bytes returned or same    *)
(* kind of failure, and the same backlog left.                             *)
C30_CopiesAgree ==
    /\ pc = "idle" /\ legacy.pc = "idle"
           => /\ legacy.outcome = outcome
              /\ legacy.result = result
              /\ legacy.backlog_bytes = backlog_bytes
    /\ s_pc = "idle" /\ legacy.s_pc = "idle"
           => /\ legacy.s_outcome = s_outcome
              /\ legacy.s_result = s_result

(* recv took a backlog and read the rest from the socket: the copy of      *)
(* chunkystreamsocket.py has returned the bytes, the legacy copy has       *)
(* raised TypeError and its backlog is gone                                *)
C30_Witness ==
    /\ Returned("recv")
    /\ startBacklog # None
    /\ Len(startBacklog) >= 1
    /\ nreads >= 1
    /\ Len(result) > Len(startBacklog)
    /\ legacy.pc = "idle"
    /\ legacy.outcome = "TypeError"
    /\ legacy.result = None
    /\ legacy.backlog_bytes = None

====
